---- MODULE Spec2Model ----
(***************************************************************************)
(* Model of the TuneFree queue/playback engine                             *)
(* (custom_components/tunefree/media_player.py, class TuneFreeMediaPlayer) *)
(* as a state machine.  One player instance; its coroutines are the tasks. *)
(* A coroutine runs atomically between two awaits (asyncio is cooperative),*)
(* so every action below is the code from one await to the next.           *)
(***************************************************************************)
EXTENDS Integers, Sequences, FiniteSets, TLC

\* ------------------------------------------------------------------ bounds
NSongs == 2
MaxLen == 2
MaxTasks == 1

\* range(3) of the resolution retry loop
MaxAttempts == 3
\* the "- 2" of the near-end test of check_position
NearEnd == 2

\* ------------------------------------------------------- python helpers
None == "None"

Digit == <<"0", "1", "2", "3", "4", "5", "6", "7", "8", "9">>

RECURSIVE Str(_)
\* str(n) of a natural number
Str(n) == IF n < 10 THEN Digit[n + 1] ELSE Str(n \div 10) \o Digit[(n % 10) + 1]

\* a song record as the remote client returns it
SongRec(i) == [id |-> i, name |-> "song" \o Str(i)]

Songs == {SongRec(i) : i \in 1..NSongs}

NoSong == [id |-> 0, name |-> ""]

\* the song lists the remote client returns, duplicates included: every list of
\* at most MaxLen songs, one per renaming of the songs (the songs are numbered
\* in the order of their first occurrence)
ListsUpTo(len) ==
    {l \in UNION {[1..n -> Songs] : n \in 0..len} :
        \A j \in 1..Len(l) : \A i \in 1..(l[j].id - 1) : \E m \in 1..(j - 1) : l[m].id = i}

SongLists == ListsUpTo(MaxLen)

\* list[i] with python's indexing: 0-based, a negative index counts from the end
PyGet(l, i) == IF i >= 0 THEN l[i + 1] ELSE l[Len(l) + i + 1]

\* the 1-based position python's index i denotes
PyPos(l, i) == IF i >= 0 THEN i + 1 ELSE Len(l) + i + 1

\* list.index(x): 0-based position of the first element equal to x
PyIndexOf(l, x) == (CHOOSE j \in 1..Len(l) : l[j] = x /\ \A m \in 1..(j - 1) : l[m] # x) - 1

\* the list with the elements at 1-based positions a and b exchanged
SwapAt(l, a, b) == [j \in 1..Len(l) |-> IF j = a THEN l[b] ELSE IF j = b THEN l[a] ELSE l[j]]

\* the orders random.shuffle can leave a list in
Shuffles(l) ==
    {[j \in 1..Len(l) |-> l[p[j]]] :
        p \in {q \in [1..Len(l) -> 1..Len(l)] : \A a, b \in 1..Len(l) : q[a] = q[b] => a = b}}

\* str(i) of an integer
IntStr(i) == IF i < 0 THEN "-" \o Str(-i) ELSE Str(i)

\* a string the code takes apart is the sequence of its pieces: each ":" is a
\* piece of its own and no other piece holds one
RECURSIVE Text(_)
\* the string itself
Text(s) == IF s = <<>> THEN "" ELSE Head(s) \o Text(Tail(s))

RECURSIVE split(_)
\* s.split(":")
split(s) ==
    IF s = <<>> THEN <<"">>
    ELSE LET rest == split(Tail(s)) IN
         IF Head(s) = ":" THEN <<"">> \o rest
         ELSE <<Head(s) \o Head(rest)>> \o Tail(rest)

\* s.startswith(prefix)
startswith(s, prefix) == Len(s) >= Len(prefix) /\ SubSeq(s, 1, Len(prefix)) = prefix

\* the integers int() is asked for, each with its decimal form
Decimal == [n \in (-9)..19 |-> IntStr(n)]

\* int(x) succeeds (it raises ValueError otherwise)
IsInt(x) == \E n \in DOMAIN Decimal : Decimal[n] = x

\* int(x)
int(x) == CHOOSE n \in DOMAIN Decimal : Decimal[n] = x

\* song.get(k, default) of a song record
get(song, k, default) == IF k \in DOMAIN song THEN song[k] ELSE default

\* song["source"] = source
tag(song, source) ==
    [k \in DOMAIN song \cup {"source"} |-> IF k = "source" THEN source ELSE song[k]]

\* lines 429-430 (448-449, 467-468, 487-488): every song of a chart or a
\* playlist is given the platform of the list as its source
Tagged(songs, source) == [j \in 1..Len(songs) |-> tag(songs[j], source)]

\* lines 516-518: each of the first n songs of a search result is given its
\* platform, or netease, as its source
TaggedSearch(songs, n) ==
    [j \in 1..Len(songs) |->
        IF j <= n THEN tag(songs[j], get(songs[j], "platform", "netease")) ELSE songs[j]]

\* ------------------------------------------------------- remote client
\* TuneFreeAPI.get_song_url_endpoint, with the default bitrate
get_song_url_endpoint(song_id, source) ==
    "/api/?source=" \o source \o "&id=" \o song_id \o "&type=url&br=320k"

\* what the aggregator redirects an endpoint to
Location(endpoint) == "http://cdn" \o endpoint

\* the statuses resolve_song_redirect takes for a redirect
RedirectStatuses == {301, 302, 303, 307, 308}

\* the answer to the GET of resolve_song_redirect: the request raised (fault),
\* or a response with its status, its Location header (None when it has none)
\* and its own url
Response(fault, status, location, url) ==
    [fault |-> fault, status |-> status, location |-> location, url |-> url]

\* mutant: only a 302 is taken for a redirect
resolve_song_redirect_only_302(song_url_endpoint, resp) ==
    IF resp.fault THEN None
    ELSE IF resp.status = 302 THEN resp.location
    ELSE IF resp.status = 200 THEN resp.url
    ELSE None

\* TuneFreeAPI.resolve_song_redirect: the url, or None
resolve_song_redirect(song_url_endpoint, resp) ==
    IF resp.fault THEN None
    ELSE IF resp.status \in RedirectStatuses THEN resp.location
    ELSE IF resp.status = 200 THEN resp.url
    ELSE None

\* the answer of the aggregator to one resolution attempt of the engine: a
\* redirect to the stream, or not found
Answer(endpoint, ok) ==
    IF ok THEN Response(FALSE, 302, Location(endpoint), endpoint)
    ELSE Response(FALSE, 404, None, endpoint)

\* JSON values as response.json() returns them: None, a dict, a list
JNull == [t |-> "null"]

JDict(d) == [t |-> "dict", v |-> d]

JList(l) == [t |-> "list", v |-> l]

EmptyDict == JDict([k \in {} |-> JNull])

EmptyList == JList(<<>>)

\* python's truth value of a JSON value
Truthy(x) == x.t # "null" /\ DOMAIN x.v # {}

\* x.get(k, default) inside a try whose except clause returns empty: a value
\* that is not a dict has no get (AttributeError)
GetOr(x, k, default, empty) ==
    IF x.t # "dict" THEN empty
    ELSE IF k \in DOMAIN x.v THEN x.v[k] ELSE default

\* what _request did: it returned the decoded body, or raised an error
Returned(body) == [how |-> "return", value |-> body, error |-> None]

Raised(error) == [how |-> "raise", value |-> JNull, error |-> error]

NoReq == [how |-> "none", value |-> JNull, error |-> None]

\* mutant: the code of the envelope is not looked at
success_ignores_code(req) ==
    /\ req.how = "return"
    /\ Truthy(req.value)
    /\ req.value.t = "dict"

\* the test `data and data.get("code") == 200` of the JSON-returning calls,
\* FALSE as well when _request raised or the body has no get
success(req) ==
    /\ req.how = "return"
    /\ Truthy(req.value)
    /\ req.value.t = "dict"
    /\ "code" \in DOMAIN req.value.v
    /\ req.value.v.code = 200

\* TuneFreeAPI.get_toplists, from the return of its _request on
get_toplists(req) ==
    IF success(req)
    THEN GetOr(GetOr(req.value, "data", EmptyDict, EmptyList), "list", EmptyList, EmptyList)
    ELSE EmptyList

\* TuneFreeAPI.get_toplist_songs, from the return of its _request on
get_toplist_songs(req) ==
    IF success(req)
    THEN GetOr(GetOr(req.value, "data", EmptyDict, EmptyList), "list", EmptyList, EmptyList)
    ELSE EmptyList

\* TuneFreeAPI.search, from the return of its _request on
search(req) ==
    IF success(req)
    THEN GetOr(GetOr(req.value, "data", EmptyDict, EmptyList), "results", EmptyList, EmptyList)
    ELSE EmptyList

\* TuneFreeAPI.get_song_info, from the return of its _request on
get_song_info(req) ==
    IF success(req) THEN GetOr(req.value, "data", JNull, JNull) ELSE JNull

\* TuneFreeAPI.get_playlist, from the return of its _request on
get_playlist(req) ==
    IF success(req) THEN GetOr(req.value, "data", EmptyDict, JNull) ELSE JNull

\* mutant: the source parameter is sent with every search type
search_params_always_source(keywords, source, search_type) ==
    IF search_type = "aggregateSearch"
    THEN [keyword |-> keywords, type |-> "aggregateSearch", source |-> source]
    ELSE [keyword |-> keywords, type |-> "search", source |-> source]

\* lines 97-102 of TuneFreeAPI.search: the query parameters of its request
search_params(keywords, source, search_type) ==
    IF search_type = "aggregateSearch"
    THEN [keyword |-> keywords, type |-> "aggregateSearch"]
    ELSE [keyword |-> keywords, type |-> "search", source |-> source]

\* the JSON-returning calls of the client
JsonCalls == {"get_toplists", "get_toplist_songs", "search", "get_song_info", "get_playlist"}

\* the query parameters each call hands to _request
request_params(call, keywords, source, search_type) ==
    CASE call = "get_toplists" -> [source |-> source, type |-> "toplists"]
      [] call = "get_toplist_songs" -> [source |-> source, id |-> "123", type |-> "toplist"]
      [] call = "search" -> search_params(keywords, source, search_type)
      [] call = "get_song_info" -> [source |-> source, id |-> "123", type |-> "info"]
      [] call = "get_playlist" -> [source |-> source, id |-> "123", type |-> "playlist"]

\* what each call returns to its caller, from the return of its _request on
Wrapper(call, req) ==
    CASE call = "get_toplists" -> get_toplists(req)
      [] call = "get_toplist_songs" -> get_toplist_songs(req)
      [] call = "search" -> search(req)
      [] call = "get_song_info" -> get_song_info(req)
      [] call = "get_playlist" -> get_playlist(req)

\* the client with no call in flight
ApiIdle ==
    [call |-> "none", search_type |-> None, params |-> [type |-> "none"], retries |-> 0,
     attempt |-> 0, pc |-> "idle", last_error |-> None, outcomes |-> <<>>, req |-> NoReq,
     result |-> JNull, resp |-> Response(FALSE, 0, None, None), url |-> None]

\* ----------------------------------------------------------------- state
VARIABLES
    playlist,           \* self._playlist
    playlist_index,     \* self._playlist_index
    shuffle,            \* self._shuffle
    repeat,             \* self._repeat
    advancing,          \* self._advancing
    media_title,        \* self._media_title (the artist is written with it)
    current_song_id,    \* self._current_song_id
    media_content_id,   \* self._media_content_id
    is_xiaoai_speaker,  \* self._is_xiaoai_speaker (configuration)
    tasks,              \* the coroutines in flight, each at its await
    run,                \* history: the operation in flight when it is alone
    ev,                 \* history: the step just taken
    api                 \* the remote client's call in flight (api.py)

engine == <<playlist, playlist_index, shuffle, repeat, advancing>>
session == <<media_title, current_song_id, media_content_id>>
vars == <<playlist, playlist_index, shuffle, repeat, advancing, media_title,
          current_song_id, media_content_id, is_xiaoai_speaker, tasks, run, ev, api>>

\* the slots of the coroutines that can be in flight at once
TaskIds == DOMAIN tasks

\* a coroutine: where it is, the song and the attempt of its activation, the
\* url resolved, while it fetches a list, the identifier played and the
\* arguments parsed from it (platform and list id, start index), and, as
\* history, whether a track-finished trigger started it
Idle == [pc |-> "idle", song |-> NoSong, attempt |-> 0, url |-> None, start |-> 0,
         media_id |-> <<>>, list |-> <<>>, trig |-> FALSE]

NoRun == [op |-> "none", trig |-> FALSE, pre |-> 0, first |-> 0, skipped |-> 0,
          tries |-> 0, cmds |-> 0, url |-> None]

NewRun(op, trig, pre, first) ==
    [op |-> op, trig |-> trig, pre |-> pre, first |-> first, skipped |-> 0,
     tries |-> 0, cmds |-> 0, url |-> None]

AllIdle == \A t \in TaskIds : tasks[t] = Idle

\* the history of an operation that starts now: kept only when nothing else is in flight
Begin(op, trig, pre, first) == IF AllIdle THEN NewRun(op, trig, pre, first) ELSE NoRun

\* the lowest free task slot
FreeSlot(t) == tasks[t] = Idle /\ \A u \in TaskIds : u < t => tasks[u] # Idle

\* what the remote client returned to the step: nothing, or a song list (as
\* the step left its records), for the identifier played or browsed
NoGot == [some |-> FALSE, songs |-> <<>>, for |-> <<>>]

Got(songs, media_id) == [some |-> TRUE, songs |-> songs, for |-> media_id]

\* what a browse gave its caller: nothing (the step is no browse), a view with
\* its identifier and the identifiers of its children, or an error raised
NoView == [how |-> "none", kind |-> "none", media_content_id |-> <<>>, children |-> <<>>]

BrowseMedia(kind, content_id, children) ==
    [how |-> "return", kind |-> kind, media_content_id |-> content_id, children |-> children]

BrowseError(error) ==
    [how |-> "raise", kind |-> error, media_content_id |-> <<>>, children |-> <<>>]

\* the record of a step: the handler that took it, whether its input was the
\* one it waits for (a playing->idle event, a report near the end of the track,
\* a shuffle that changed the order), the command it sent to the target player,
\* when it ends an operation, how and with what history, and the song list
\* the remote client returned to it, the view a browse returned, and the
\* playlist attribute a read of the attributes reported
Step(act) ==
    [act |-> act, hit |-> FALSE, cmd |-> "none", exit |-> "none", run |-> NoRun, got |-> NoGot,
     view |-> NoView, attrs |-> <<>>]

Viewed(act, content_id, view) == [Step(act) EXCEPT !.view = view, !.got.for = content_id]

Fetched(act, songs, media_id) == [Step(act) EXCEPT !.got = Got(songs, media_id)]

Hit(act) == [Step(act) EXCEPT !.hit = TRUE]

Sent(e, cmd) == [e EXCEPT !.cmd = cmd]

Exit(e, how, g) == [e EXCEPT !.exit = how, !.run = g]

Init ==
    /\ playlist = <<>>
    /\ playlist_index = 0
    /\ shuffle = FALSE
    /\ repeat = "off"
    /\ advancing = FALSE
    /\ media_title = None
    /\ current_song_id = None
    /\ media_content_id = None
    /\ is_xiaoai_speaker \in BOOLEAN
    /\ tasks = [t \in 1..MaxTasks |-> Idle]
    /\ run = NoRun
    /\ ev = Step("init")
    /\ api = ApiIdle

\* -------------------------------------------------- _play_current_track
\* history: the activation that step e enters or continues in slot t was
\* started by a track-finished trigger
ByTrigger(e, t) == e.act = "check_position" \/ tasks[t].trig

\* lines 329-343: read the song at the cursor, publish it, start the first
\* resolution attempt
LoadSong(e, t, pl, idx, adv, g) ==
    LET song == PyGet(pl, idx) IN
    /\ playlist' = pl
    /\ playlist_index' = idx
    /\ advancing' = adv
    /\ media_title' = song.name
    /\ current_song_id' = Str(song.id)
    /\ UNCHANGED media_content_id
    /\ tasks' = [tasks EXCEPT ![t] =
                    [Idle EXCEPT !.pc = "resolve", !.song = song, !.trig = ByTrigger(e, t)]]
    /\ run' = g
    /\ ev' = e

\* lines 313-327: the entry of _play_current_track, up to its first await,
\* entered with queue pl, cursor idx and guard adv
Activate(e, t, pl, idx, adv, g) ==
    IF pl = <<>> \/ idx >= Len(pl)
    THEN /\ playlist' = pl
         /\ playlist_index' = idx
         /\ advancing' = FALSE
         /\ UNCHANGED session
         /\ tasks' = [tasks EXCEPT ![t] = Idle]
         /\ run' = NoRun
         /\ ev' = Exit(e, "noop", g)
    ELSE IF is_xiaoai_speaker
    THEN /\ playlist' = pl
         /\ playlist_index' = idx
         /\ advancing' = adv
         /\ UNCHANGED session
         /\ tasks' = [tasks EXCEPT ![t] =
                         [Idle EXCEPT !.pc = "stop", !.trig = ByTrigger(e, t)]]
         /\ run' = g
         /\ ev' = Sent(e, "media_stop")
    ELSE LoadSong(e, t, pl, idx, adv, g)

\* lines 322-329: media_stop returned or raised (the fault is caught), the
\* pause is over
StopDone(t) ==
    /\ tasks[t].pc = "stop"
    /\ IF playlist_index < Len(playlist) /\ playlist_index >= -Len(playlist)
       THEN LoadSong(Step("stop_done"), t, playlist, playlist_index, advancing, run)
       ELSE \* self._playlist[self._playlist_index] raises IndexError
            /\ tasks' = [tasks EXCEPT ![t] = Idle]
            /\ run' = NoRun
            /\ ev' = Exit(Step("stop_done"), "raise", run)
            /\ UNCHANGED <<playlist, playlist_index, advancing, session>>
    /\ UNCHANGED <<shuffle, repeat, is_xiaoai_speaker, api>>

\* line 331: the platform a song is resolved on
SourceOf(song) == get(song, "platform", get(song, "source", "netease"))

Tried(g) == IF g = NoRun THEN NoRun ELSE [g EXCEPT !.tries = @ + 1]

Skipped(g) == IF g = NoRun THEN NoRun ELSE [g EXCEPT !.skipped = @ + 1]

Commanded(g, url) == IF g = NoRun THEN NoRun ELSE [g EXCEPT !.cmds = @ + 1, !.url = url]

\* mutant: the branch that ends the activation forgets to clear the guard
SkipOrStop_keeps_guard(e, t, g) ==
    IF playlist_index < Len(playlist) - 1
    THEN Activate(e, t, playlist, playlist_index + 1, advancing, Skipped(g))
    ELSE /\ tasks' = [tasks EXCEPT ![t] = Idle]
         /\ run' = NoRun
         /\ ev' = Exit(e, "exhausted", g)
         /\ UNCHANGED <<playlist, playlist_index, advancing, session>>

\* lines 350-358: every attempt failed: skip to the next track if there is one
SkipOrStop(e, t, g) ==
    IF playlist_index < Len(playlist) - 1
    THEN Activate(e, t, playlist, playlist_index + 1, advancing, Skipped(g))
    ELSE /\ advancing' = FALSE
         /\ tasks' = [tasks EXCEPT ![t] = Idle]
         /\ run' = NoRun
         /\ ev' = Exit(e, "exhausted", g)
         /\ UNCHANGED <<playlist, playlist_index, session>>

\* mutant: a fourth attempt is made
MoreAttempts_four(attempt) == attempt < MaxAttempts

\* line 342, `for attempt in range(3)`: after `attempt` failed calls and one
\* more, the loop has another turn
MoreAttempts(attempt) == attempt < MaxAttempts - 1

\* lines 342-360: one resolve_song_redirect call returned (ok: with a url)
Resolved(t, ok) ==
    /\ tasks[t].pc = "resolve"
    /\ LET tk == tasks[t]
           song_id == Str(tk.song.id)
           source == SourceOf(tk.song)
           url_endpoint == get_song_url_endpoint(song_id, source)
           final_url == resolve_song_redirect(url_endpoint, Answer(url_endpoint, ok))
       IN IF final_url # None
          THEN /\ media_content_id' = "media-source://tunefree/" \o source \o ":" \o song_id
               /\ tasks' = [tasks EXCEPT ![t] =
                               [tk EXCEPT !.pc = "meta", !.attempt = 0, !.url = final_url]]
               /\ run' = Tried(run)
               /\ ev' = Step("resolved")
               /\ UNCHANGED <<playlist, playlist_index, advancing, media_title, current_song_id>>
          ELSE IF MoreAttempts(tk.attempt)
          THEN /\ tasks' = [tasks EXCEPT ![t] = [tk EXCEPT !.attempt = @ + 1]]
               /\ run' = Tried(run)
               /\ ev' = Step("resolved")
               /\ UNCHANGED <<playlist, playlist_index, advancing, session>>
          ELSE SkipOrStop(Step("resolved"), t, Tried(run))
    /\ UNCHANGED <<shuffle, repeat, is_xiaoai_speaker, api>>

\* mutant: play_media is given the url endpoint instead of the resolved url
MetaDone_sends_endpoint(t) ==
    /\ tasks[t].pc = "meta"
    /\ tasks' = [tasks EXCEPT ![t] = [@ EXCEPT !.pc = "play"]]
    /\ run' = Commanded(run, get_song_url_endpoint(Str(tasks[t].song.id), SourceOf(tasks[t].song)))
    /\ ev' = Sent(Step("meta_done"), "play_media")
    /\ UNCHANGED <<engine, session, is_xiaoai_speaker, api>>

\* lines 362-388: get_song_info and get_lyrics returned (neither raises);
\* play_media is called with the resolved url
MetaDone(t) ==
    /\ tasks[t].pc = "meta"
    /\ tasks' = [tasks EXCEPT ![t] = [@ EXCEPT !.pc = "play"]]
    /\ run' = Commanded(run, tasks[t].url)
    /\ ev' = Sent(Step("meta_done"), "play_media")
    /\ UNCHANGED <<engine, session, is_xiaoai_speaker, api>>

\* lines 379-390: the play_media service call returned (ok) or raised
PlayDone(t, ok) ==
    /\ tasks[t].pc = "play"
    /\ advancing' = IF ok THEN FALSE ELSE advancing
    /\ tasks' = [tasks EXCEPT ![t] = Idle]
    /\ run' = NoRun
    /\ ev' = Exit(Step("play_done"), IF ok THEN "played" ELSE "raise", run)
    /\ UNCHANGED <<playlist, playlist_index, shuffle, repeat, session, is_xiaoai_speaker, api>>

\* ------------------------------------------------------------ operations
\* the start indices a toplist_song identifier can carry (int() accepts any
\* integer)
IndexArgs == (-1)..MaxLen

\* the indices a now_playing_song identifier can carry
JumpArgs == 0..MaxLen

\* self._search_limit
search_limit == MaxLen

\* mutant: the start index is ignored, the queue always starts at 0
set_playlist_ignores_start(e, t, songs, start_index, g) ==
    IF songs # <<>>
    THEN Activate(e, t, songs, 0, advancing, g)
    ELSE /\ playlist' = songs
         /\ playlist_index' = 0
         /\ tasks' = [tasks EXCEPT ![t] = Idle]
         /\ run' = NoRun
         /\ ev' = Exit(e, "empty", g)
         /\ UNCHANGED <<advancing, session>>

\* lines 306-311: set_playlist(songs, start_index)
set_playlist(e, t, songs, start_index, g) ==
    IF songs # <<>>
    THEN Activate(e, t, songs, start_index, advancing, g)
    ELSE /\ playlist' = songs
         /\ playlist_index' = start_index
         /\ tasks' = [tasks EXCEPT ![t] = Idle]
         /\ run' = NoRun
         /\ ev' = Exit(e, "empty", g)
         /\ UNCHANGED <<advancing, session>>

\* line 954 of async_browse_media: the identifier of the song at index idx of
\* chart list_id on platform source
toplist_song_id(source, list_id, idx) ==
    <<"toplist_song", ":", source, ":", list_id, ":", IntStr(idx)>>

\* mutant: the children are numbered from 1
toplist_children_from_one(source, list_id, songs) ==
    [j \in 1..Len(songs) |-> toplist_song_id(source, list_id, j)]

\* lines 950-962 of async_browse_media: the identifiers of the children of
\* toplist:<source>:<list_id>, one per song of the chart, in its order
toplist_children(source, list_id, songs) ==
    [j \in 1..Len(songs) |-> toplist_song_id(source, list_id, j - 1)]

\* the toplist_song identifiers played: those the browse view shows for a
\* chart, those with any other index, and one whose index is no number
ToplistSongIds ==
    UNION {{toplist_children("netease", "123", songs)[j] : j \in 1..Len(songs)} :
              songs \in SongLists}
    \cup {toplist_song_id("netease", "123", i) : i \in IndexArgs}
    \cup {<<"toplist_song", ":", "netease", ":", "123", ":", "x">>}

\* the identifier of a chart (line 923) and of a saved playlist (line 868) as
\* the browse view shows them
ListIds == {<<"toplist", ":", "netease", ":", "123">>, <<"playlist", ":", "netease", ":", "123">>}

\* line 988 of async_browse_media: the identifier of the song at index idx of
\* playlist playlist_id on platform source
playlist_song_id(source, playlist_id, idx) ==
    <<"playlist_song", ":", source, ":", playlist_id, ":", IntStr(idx)>>

\* the playlist_song identifiers played: with any index, and one whose index
\* is no number
PlaylistSongIds ==
    {playlist_song_id("netease", "123", i) : i \in IndexArgs}
    \cup {<<"playlist_song", ":", "netease", ":", "123", ":", "x">>}

\* identifiers with the wrong number of parts, an unknown prefix or an index
\* that is no number
MalformedIds ==
    {<<"toplist", ":", "netease">>,
     <<"toplist", ":", "netease", ":", "123", ":", "0">>,
     <<"playlist", ":", "netease">>,
     <<"playlist", ":", "netease", ":", "123", ":", "0">>,
     <<"toplist_song", ":", "netease", ":", "123", ":", "x">>,
     <<"playlist_song", ":", "netease", ":", "123", ":", "x">>,
     <<"now_playing_song", ":", "x">>,
     <<"bogus">>,
     <<"bogus", ":", "netease", ":", "123">>}

\* the identifiers browsed: none, those the views show for their expandable
\* children, a search, and the malformed ones
BrowseIds ==
    {<<>>, <<"now_playing">>, <<"my_playlists">>, <<"toplists">>,
     <<"toplists", ":", "netease">>, <<"toplists", ":">>, <<"search", ":", "k">>}
    \cup ListIds \cup MalformedIds

\* media_id.split(":") of the identifiers played or browsed
Parts ==
    [media_id \in ToplistSongIds \cup PlaylistSongIds \cup ListIds \cup BrowseIds |->
        split(media_id)]

\* media_id.startswith("toplist_song:") of the identifiers played
IsToplistSong == [media_id \in DOMAIN Parts |-> startswith(media_id, <<"toplist_song", ":">>)]

\* int(parts[3]) of the toplist_song and playlist_song identifiers played:
\* whether it succeeds (it raises ValueError otherwise) and its value
StartIndex ==
    [media_id \in ToplistSongIds \cup PlaylistSongIds |->
        LET x == Parts[media_id][Len(Parts[media_id])] IN
        [ok |-> IsInt(x), value |-> IF IsInt(x) THEN int(x) ELSE 0]]

\* the results an aggregate search can return: one more than the limit keeps
SearchLists == ListsUpTo(search_limit + 1)

\* lines 495-522 and 579-592: what async_play_media does with an identifier no
\* queue branch took: a search for it when the media type is music, the raw
\* identifier forwarded to the target player otherwise
PlayOther(e, text, music) ==
    IF music
    THEN /\ \E t \in TaskIds :
             /\ FreeSlot(t)
             /\ tasks' = [tasks EXCEPT ![t] = [Idle EXCEPT !.pc = "search"]]
         /\ run' = Begin("set_playlist", FALSE, 0, 0)
         /\ ev' = e
         /\ UNCHANGED <<playlist, playlist_index, advancing, session>>
    ELSE /\ media_content_id' = text
         /\ run' = NoRun
         /\ ev' = Sent(e, "play_media")
         /\ UNCHANGED <<playlist, playlist_index, advancing, media_title,
                        current_song_id, tasks>>

\* a branch of async_play_media awaits the list of a chart or a playlist
StartFetch(e, pc, media_id, list, start) ==
    /\ \E t \in TaskIds :
        /\ FreeSlot(t)
        /\ tasks' = [tasks EXCEPT ![t] = [Idle EXCEPT !.pc = pc, !.start = start,
                                                      !.media_id = media_id, !.list = list]]
    /\ run' = Begin("set_playlist", FALSE, start, start)
    /\ ev' = e
    /\ UNCHANGED <<playlist, playlist_index, advancing, session>>

\* lines 437-446: async_play_media(media_type, "toplist_song:<source>:<list>:<i>")
\* up to the await of get_toplist_songs
PlayToplistSong(media_id, music) ==
    /\ IsToplistSong[media_id]
    /\ LET parts == Parts[media_id] IN
       IF Len(parts) = 4
       THEN IF StartIndex[media_id].ok
            THEN StartFetch(Step("play_toplist_song"), "fetch", media_id,
                            <<parts[2], parts[3]>>, StartIndex[media_id].value)
            ELSE \* int(parts[3]) raises ValueError
                 /\ run' = NoRun
                 /\ ev' = Exit(Step("play_toplist_song"), "raise", NoRun)
                 /\ UNCHANGED <<playlist, playlist_index, advancing, session, tasks>>
       ELSE PlayOther(Step("play_toplist_song"), Text(media_id), music)
    /\ UNCHANGED <<shuffle, repeat, is_xiaoai_speaker, api>>

\* lines 418-426: async_play_media(media_type, "toplist:<source>:<list>") up to
\* the await of get_toplist_songs; with another number of parts the
\* identifier is forwarded raw (line 500 keeps it from the search)
PlayToplist(media_id) ==
    /\ ~IsToplistSong[media_id]
    /\ startswith(media_id, <<"toplist", ":">>)
    /\ LET parts == Parts[media_id] IN
       IF Len(parts) = 3
       THEN StartFetch(Step("play_toplist"), "fetch", media_id, <<parts[2], parts[3]>>, 0)
       ELSE PlayOther(Step("play_toplist"), Text(media_id), FALSE)
    /\ UNCHANGED <<shuffle, repeat, is_xiaoai_speaker, api>>

\* lines 446-454 and 426-435: get_toplist_songs returned songs (empty on any
\* failure)
FetchDone(t, songs) ==
    /\ tasks[t].pc = "fetch"
    /\ IF songs # <<>>
       THEN LET queued == Tagged(songs, tasks[t].list[1]) IN
            set_playlist(Fetched("fetch_done", queued, tasks[t].media_id), t, queued,
                         tasks[t].start, run)
       ELSE /\ tasks' = [tasks EXCEPT ![t] = Idle]
            /\ run' = NoRun
            /\ ev' = Exit(Fetched("fetch_done", songs, tasks[t].media_id), "empty", run)
            /\ UNCHANGED <<playlist, playlist_index, advancing, session>>
    /\ UNCHANGED <<shuffle, repeat, is_xiaoai_speaker, api>>

\* lines 456-464: async_play_media(media_type, "playlist:<source>:<id>") up to
\* the await of get_playlist
PlayPlaylist(media_id, music) ==
    /\ startswith(media_id, <<"playlist", ":">>)
    /\ LET parts == Parts[media_id] IN
       IF Len(parts) = 3
       THEN StartFetch(Step("play_playlist"), "fetch_playlist", media_id,
                       <<parts[2], parts[3]>>, 0)
       ELSE PlayOther(Step("play_playlist"), Text(media_id), music)
    /\ UNCHANGED <<shuffle, repeat, is_xiaoai_speaker, api>>

\* lines 475-484: async_play_media(media_type, "playlist_song:<source>:<id>:<i>")
\* up to the await of get_playlist
PlayPlaylistSong(media_id, music) ==
    /\ startswith(media_id, <<"playlist_song", ":">>)
    /\ LET parts == Parts[media_id] IN
       IF Len(parts) = 4
       THEN IF StartIndex[media_id].ok
            THEN StartFetch(Step("play_playlist_song"), "fetch_playlist", media_id,
                            <<parts[2], parts[3]>>, StartIndex[media_id].value)
            ELSE \* int(parts[3]) raises ValueError
                 /\ run' = NoRun
                 /\ ev' = Exit(Step("play_playlist_song"), "raise", NoRun)
                 /\ UNCHANGED <<playlist, playlist_index, advancing, session, tasks>>
       ELSE PlayOther(Step("play_playlist_song"), Text(media_id), music)
    /\ UNCHANGED <<shuffle, repeat, is_xiaoai_speaker, api>>

\* lines 464-473 and 484-493: get_playlist returned playlist_data (None on any
\* failure)
PlaylistDone(t, playlist_data) ==
    /\ tasks[t].pc = "fetch_playlist"
    /\ IF Truthy(playlist_data)
       THEN LET songs == Tagged(GetOr(playlist_data, "list", EmptyList, EmptyList).v,
                                tasks[t].list[1]) IN
            set_playlist(Fetched("playlist_done", songs, tasks[t].media_id), t, songs,
                         tasks[t].start, run)
       ELSE /\ tasks' = [tasks EXCEPT ![t] = Idle]
            /\ run' = NoRun
            /\ ev' = Exit(Step("playlist_done"), "empty", run)
            /\ UNCHANGED <<playlist, playlist_index, advancing, session>>
    /\ UNCHANGED <<shuffle, repeat, is_xiaoai_speaker, api>>

\* what get_playlist can return: None, an object without a list, an object
\* with the list songs
PlaylistData(kind, songs) ==
    IF kind = "none" THEN JNull
    ELSE IF kind = "no_list" THEN JDict([info |-> JNull])
    ELSE JDict([list |-> JList(songs)])

\* lines 406-416 and the branches an out-of-range index falls through to:
\* async_play_media(media_type, "now_playing_song:<i>")
PlayNowPlayingSong(i, music) ==
    /\ IF 0 <= i /\ i < Len(playlist)
       THEN \E t \in TaskIds :
               /\ FreeSlot(t)
               /\ Activate(Step("play_now_playing_song"), t, playlist, i, advancing,
                           Begin("move", FALSE, i, i))
       ELSE PlayOther(Step("play_now_playing_song"), "now_playing_song:" \o IntStr(i), music)
    /\ UNCHANGED <<shuffle, repeat, is_xiaoai_speaker, api>>

\* lines 495-510: async_play_media(media_type, "search:<keyword>") up to the
\* await of the aggregate search
PlaySearch ==
    /\ PlayOther(Step("play_search"), "search:k", TRUE)
    /\ UNCHANGED <<shuffle, repeat, is_xiaoai_speaker, api>>

\* mutant: only the first result is queued
Take_first_only(l, n) == [j \in 1..(IF Len(l) < 1 THEN Len(l) ELSE 1) |-> l[j]]

\* songs[:n]
Take(l, n) == [j \in 1..(IF Len(l) < n THEN Len(l) ELSE n) |-> l[j]]

\* lines 510-522: the aggregate search returned songs (empty on any failure)
SearchDone(t, songs) ==
    /\ tasks[t].pc = "search"
    /\ IF songs = <<>>
       THEN /\ tasks' = [tasks EXCEPT ![t] = Idle]
            /\ run' = NoRun
            /\ ev' = Exit(Fetched("search_done", songs, tasks[t].media_id), "empty", run)
            /\ UNCHANGED <<playlist, playlist_index, advancing, session>>
       ELSE LET found == TaggedSearch(songs, search_limit) IN
            set_playlist(Fetched("search_done", found, tasks[t].media_id), t,
                         Take(found, search_limit), 0, run)
    /\ UNCHANGED <<shuffle, repeat, is_xiaoai_speaker, api>>

\* lines 640-649: async_media_next_track
NextTrack ==
    /\ IF playlist # <<>> /\ playlist_index < Len(playlist) - 1
       THEN \E t \in TaskIds :
               /\ FreeSlot(t)
               /\ Activate(Step("next_track"), t, playlist, playlist_index + 1, advancing,
                           Begin("move", FALSE, playlist_index + 1, playlist_index + 1))
       ELSE /\ run' = NoRun
            /\ ev' = Sent(Step("next_track"), "media_next_track")
            /\ UNCHANGED <<playlist, playlist_index, advancing, session, tasks>>
    /\ UNCHANGED <<shuffle, repeat, is_xiaoai_speaker, api>>

\* lines 651-660: async_media_previous_track
PreviousTrack ==
    /\ IF playlist # <<>> /\ playlist_index > 0
       THEN \E t \in TaskIds :
               /\ FreeSlot(t)
               /\ Activate(Step("previous_track"), t, playlist, playlist_index - 1, advancing,
                           Begin("move", FALSE, playlist_index - 1, playlist_index - 1))
       ELSE /\ run' = NoRun
            /\ ev' = Sent(Step("previous_track"), "media_previous_track")
            /\ UNCHANGED <<playlist, playlist_index, advancing, session, tasks>>
    /\ UNCHANGED <<shuffle, repeat, is_xiaoai_speaker, api>>

\* mutant: the current song is not moved back under the cursor
SetShuffle_no_swap(on) ==
    /\ shuffle' = on
    /\ IF on /\ playlist # <<>>
       THEN \E shuffled \in Shuffles(playlist) : playlist' = shuffled
       ELSE UNCHANGED playlist
    /\ run' = NoRun
    /\ ev' = IF playlist' # playlist THEN Hit("set_shuffle") ELSE Step("set_shuffle")
    /\ UNCHANGED <<playlist_index, repeat, advancing, session, is_xiaoai_speaker, api, tasks>>

\* mutant: the current song is written over the cursor slot instead of being
\* exchanged with the song there
SetShuffle_overwrites(on) ==
    /\ shuffle' = on
    /\ IF on /\ playlist # <<>>
       THEN \E shuffled \in Shuffles(playlist) :
               IF playlist_index < Len(playlist)
               THEN LET current_song == PyGet(playlist, playlist_index)
                    IN playlist' = [shuffled EXCEPT ![PyPos(shuffled, playlist_index)] = current_song]
               ELSE playlist' = shuffled
       ELSE UNCHANGED playlist
    /\ run' = NoRun
    /\ ev' = IF playlist' # playlist THEN Hit("set_shuffle") ELSE Step("set_shuffle")
    /\ UNCHANGED <<playlist_index, repeat, advancing, session, is_xiaoai_speaker, api, tasks>>

\* lines 670-685: async_set_shuffle(on)
SetShuffle(on) ==
    /\ shuffle' = on
    /\ IF on /\ playlist # <<>>
       THEN \E shuffled \in Shuffles(playlist) :
               IF playlist_index < Len(playlist)
               THEN LET current_song == PyGet(playlist, playlist_index)
                        idx == PyIndexOf(shuffled, current_song)
                    IN playlist' = SwapAt(shuffled, idx + 1, PyPos(shuffled, playlist_index))
               ELSE playlist' = shuffled
       ELSE UNCHANGED playlist
    /\ run' = NoRun
    /\ ev' = IF playlist' # playlist THEN Hit("set_shuffle") ELSE Step("set_shuffle")
    /\ UNCHANGED <<playlist_index, repeat, advancing, session, is_xiaoai_speaker, api, tasks>>

\* mutant: setting the repeat mode also clears the advancing guard
SetRepeat_clears_guard(mode) ==
    /\ repeat' = mode
    /\ advancing' = FALSE
    /\ run' = NoRun
    /\ ev' = Step("set_repeat")
    /\ UNCHANGED <<playlist, playlist_index, shuffle, session,
                   is_xiaoai_speaker, api, tasks>>

\* lines 687-690: async_set_repeat(mode)
SetRepeat(mode) ==
    /\ repeat' = mode
    /\ run' = NoRun
    /\ ev' = Step("set_repeat")
    /\ UNCHANGED <<playlist, playlist_index, shuffle, advancing, session,
                   is_xiaoai_speaker, api, tasks>>

\* ----------------------------------------------------- transport observer
TargetStates == {"playing", "idle"}

\* mutant: a next track is preferred to repeating the current one
StateChangedPolicy_next_first(rep, idx, len) ==
    IF idx < len - 1 THEN [activate |-> TRUE, index |-> idx + 1]
    ELSE IF rep = "one" THEN [activate |-> TRUE, index |-> idx]
    ELSE IF rep = "all" THEN [activate |-> TRUE, index |-> 0]
    ELSE [activate |-> FALSE, index |-> idx]

\* mutant: repeat = all goes back to the first track from any index
StateChangedPolicy_wraps_anywhere(rep, idx, len) ==
    IF rep = "one" THEN [activate |-> TRUE, index |-> idx]
    ELSE IF rep = "all" THEN [activate |-> TRUE, index |-> 0]
    ELSE IF idx < len - 1 THEN [activate |-> TRUE, index |-> idx + 1]
    ELSE [activate |-> FALSE, index |-> idx]

\* lines 179-191: what a playing->idle event does to the cursor, and whether a
\* track is activated
StateChangedPolicy(rep, idx, len) ==
    IF rep = "one" THEN [activate |-> TRUE, index |-> idx]
    ELSE IF idx < len - 1 THEN [activate |-> TRUE, index |-> idx + 1]
    ELSE IF rep = "all" THEN [activate |-> TRUE, index |-> 0]
    ELSE [activate |-> FALSE, index |-> idx]

\* mutant: the end of the queue wraps to the first track whatever the repeat mode
CheckPositionPolicy_wraps_when_off(rep, idx, len) ==
    IF rep = "one" THEN [activate |-> TRUE, index |-> idx]
    ELSE IF idx < len - 1 THEN [activate |-> TRUE, index |-> idx + 1]
    ELSE [activate |-> TRUE, index |-> 0]

\* mutant: the poll tick moves on to the next track under repeat one
CheckPositionPolicy_skips_repeat_one(rep, idx, len) ==
    IF idx < len - 1 THEN [activate |-> TRUE, index |-> idx + 1]
    ELSE IF rep = "all" THEN [activate |-> TRUE, index |-> 0]
    ELSE IF rep = "one" THEN [activate |-> TRUE, index |-> idx]
    ELSE [activate |-> FALSE, index |-> idx]

\* lines 144-153: the same decision as check_position takes it
CheckPositionPolicy(rep, idx, len) ==
    IF rep = "one" THEN [activate |-> TRUE, index |-> idx]
    ELSE IF idx < len - 1 THEN [activate |-> TRUE, index |-> idx + 1]
    ELSE IF rep = "all" THEN [activate |-> TRUE, index |-> 0]
    ELSE [activate |-> FALSE, index |-> idx]

\* mutant: every change to idle counts as the end of a track
PlayingToIdle_any_to_idle(old, new) ==
    /\ new # None
    /\ new = "idle"

\* lines 165-174: the event reports the end of a track
PlayingToIdle(old, new) ==
    /\ new # None
    /\ old = "playing"
    /\ new = "idle"

\* mutant: the advancing guard is not consulted
StateChangedFires_unguarded(old, new) ==
    /\ PlayingToIdle(old, new)
    /\ playlist # <<>>

\* lines 172-177: the condition under which a state change advances the queue
StateChangedFires(old, new) ==
    /\ PlayingToIdle(old, new)
    /\ playlist # <<>>
    /\ ~advancing

\* lines 159-193: _async_target_state_changed; old or new is None when the
\* event carries no such state.  The activation is a task created with
\* async_create_task: it starts at a later turn of the event loop.
TargetStateChanged(old, new) ==
    /\ IF StateChangedFires(old, new)
       THEN LET d == StateChangedPolicy(repeat, playlist_index, Len(playlist)) IN
            IF d.activate
            THEN /\ \E t \in TaskIds :
                     /\ FreeSlot(t)
                     /\ tasks' = [tasks EXCEPT ![t] = [Idle EXCEPT !.pc = "created", !.trig = TRUE]]
                 /\ advancing' = TRUE
                 /\ playlist_index' = d.index
                 /\ run' = Begin("finished", TRUE, playlist_index, d.index)
            ELSE /\ advancing' = FALSE
                 /\ UNCHANGED <<playlist_index, tasks, run>>
       ELSE UNCHANGED <<advancing, playlist_index, tasks, run>>
    /\ ev' = IF PlayingToIdle(old, new) THEN Hit("state_changed") ELSE Step("state_changed")
    /\ UNCHANGED <<playlist, shuffle, repeat, session, is_xiaoai_speaker, api>>

\* the task of a state-change event starts running _play_current_track
StartTask(t) ==
    /\ tasks[t].pc = "created"
    /\ Activate(Step("start_task"), t, playlist, playlist_index, advancing, run)
    /\ UNCHANGED <<shuffle, repeat, is_xiaoai_speaker, api>>

\* a numeric attribute the target player does not report (python's None)
Absent == 0 - 1

\* mutant: the state of the target player is not consulted
NearEndReport_any_state(st, position, duration, elapsed) ==
    /\ position # Absent
    /\ duration # Absent
    /\ duration > 0
    /\ LET current_position == IF elapsed # Absent THEN position + elapsed ELSE position
       IN current_position >= duration - NearEnd

\* lines 117-140: the report puts the track within NearEnd seconds of its end;
\* st, position, duration, elapsed are what the target player reports (Absent
\* when it reports none), elapsed being utcnow() - media_position_updated_at
NearEndReport(st, position, duration, elapsed) ==
    /\ st # None
    /\ st = "playing"
    /\ position # Absent
    /\ duration # Absent
    /\ duration > 0
    /\ LET current_position == IF elapsed # Absent THEN position + elapsed ELSE position
       IN current_position >= duration - NearEnd

\* lines 114-140: the condition under which a poll tick advances the queue
CheckPositionFires(st, position, duration, elapsed) ==
    /\ playlist # <<>>
    /\ ~advancing
    /\ NearEndReport(st, position, duration, elapsed)

\* mutant: the timer is registered for every target player
PositionMonitoring_always == TRUE

\* lines 100-101: the 1 s timer of check_position is registered for a Xiaoai
\* speaker only
PositionMonitoring == is_xiaoai_speaker

\* lines 112-153: check_position, a tick of the timer; it awaits
\* _play_current_track itself
CheckPosition(st, position, duration, elapsed) ==
    /\ PositionMonitoring
    /\ IF CheckPositionFires(st, position, duration, elapsed)
       THEN LET d == CheckPositionPolicy(repeat, playlist_index, Len(playlist)) IN
            IF d.activate
            THEN \E t \in TaskIds :
                    /\ FreeSlot(t)
                    /\ Activate(Hit("check_position"), t, playlist, d.index, TRUE,
                                Begin("finished", TRUE, playlist_index, d.index))
            ELSE /\ advancing' = FALSE
                 /\ ev' = Hit("check_position")
                 /\ UNCHANGED <<playlist, playlist_index, session, tasks, run>>
       ELSE /\ ev' = IF NearEndReport(st, position, duration, elapsed)
                        THEN Hit("check_position") ELSE Step("check_position")
            /\ UNCHANGED <<playlist, playlist_index, advancing, session, tasks, run>>
    /\ UNCHANGED <<shuffle, repeat, is_xiaoai_speaker, api>>

\* what the target player can report to a poll tick: one report per case
\* of check_position (no state, not playing, no position, no duration, a zero
\* duration, far from the end with and without a timestamp, near the end by
\* the timestamp alone, near the end)
Reports ==
    {[st |-> None, position |-> Absent, duration |-> Absent, elapsed |-> Absent],
     [st |-> "idle", position |-> 2, duration |-> 3, elapsed |-> 0],
     [st |-> "playing", position |-> Absent, duration |-> 3, elapsed |-> Absent],
     [st |-> "playing", position |-> 2, duration |-> Absent, elapsed |-> 0],
     [st |-> "playing", position |-> 0, duration |-> 0, elapsed |-> 0],
     [st |-> "playing", position |-> 0, duration |-> 3, elapsed |-> Absent],
     [st |-> "playing", position |-> 0, duration |-> 4, elapsed |-> 1],
     [st |-> "playing", position |-> 0, duration |-> 3, elapsed |-> 1],
     [st |-> "playing", position |-> 1, duration |-> 3, elapsed |-> Absent]}

\* ------------------------------------------------------------ the machine
Next ==
    \/ \E media_id \in ToplistSongIds, music \in BOOLEAN : PlayToplistSong(media_id, music)
    \/ PlayToplist(<<"toplist", ":", "netease", ":", "123">>)
    \/ \E t \in TaskIds, songs \in SongLists : FetchDone(t, songs)
    \/ \E music \in BOOLEAN : PlayPlaylist(<<"playlist", ":", "netease", ":", "123">>, music)
    \/ \E t \in TaskIds, kind \in {"none", "no_list", "list"}, songs \in SongLists :
          PlaylistDone(t, PlaylistData(kind, songs))
    \/ \E i \in JumpArgs, music \in BOOLEAN : PlayNowPlayingSong(i, music)
    \/ PlaySearch
    \/ \E t \in TaskIds, songs \in SearchLists : SearchDone(t, songs)
    \/ NextTrack
    \/ PreviousTrack
    \/ \E on \in BOOLEAN : SetShuffle(on)
    \/ \E mode \in {"off", "all", "one"} : SetRepeat(mode)
    \/ \E old, new \in TargetStates \cup {None} : TargetStateChanged(old, new)
    \/ \E t \in TaskIds : StartTask(t)
    \/ \E r \in Reports : CheckPosition(r.st, r.position, r.duration, r.elapsed)
    \/ \E t \in TaskIds : StopDone(t)
    \/ \E t \in TaskIds, ok \in BOOLEAN : Resolved(t, ok)
    \/ \E t \in TaskIds : MetaDone(t)
    \/ \E t \in TaskIds, ok \in BOOLEAN : PlayDone(t, ok)

Spec == Init /\ [][Next]_vars

\* ------------------------------------------------- async_set_shuffle alone
\* the longest queue of the shuffle specification
ShuffleLen == 3

\* a player holding any queue set_playlist can have installed, with any cursor
InitShuffle ==
    /\ playlist \in UNION {[1..n -> Songs] : n \in 0..ShuffleLen}
    /\ playlist_index \in (-1)..ShuffleLen
    /\ playlist_index >= -Len(playlist)
    /\ shuffle = FALSE
    /\ repeat = "off"
    /\ advancing = FALSE
    /\ media_title = None
    /\ current_song_id = None
    /\ media_content_id = None
    /\ is_xiaoai_speaker = FALSE
    /\ tasks = [t \in 1..MaxTasks |-> Idle]
    /\ run = NoRun
    /\ ev = Step("init")
    /\ api = ApiIdle

NextShuffle == \E on \in BOOLEAN : SetShuffle(on)

SpecShuffle == InitShuffle /\ [][NextShuffle]_vars

\* ------------------------------------------------- the remote client alone
\* the largest retry bound a caller passes to _request (the calls of the
\* client leave the default, 2)
MaxRetries == 2

\* the player's variables, which the client does not touch
player == <<playlist, playlist_index, shuffle, repeat, advancing, media_title,
            current_song_id, media_content_id, is_xiaoai_speaker, tasks, run, ev>>

\* the body a chart, a playlist or a search carries under "data"
Payload ==
    JDict([list |-> JList(<<SongRec(1), SongRec(1)>>), results |-> JList(<<SongRec(1)>>)])

\* the bodies response.json() can return: null, an empty object, a list, an
\* object without code, with a code other than 200, with code 200 and no
\* data, null data, empty data, and the full envelope
Bodies ==
    <<JNull,
      EmptyDict,
      JList(<<SongRec(1)>>),
      JDict([data |-> Payload]),
      JDict([code |-> 500, data |-> Payload]),
      JDict([code |-> 200]),
      JDict([code |-> 200, data |-> JNull]),
      JDict([code |-> 200, data |-> EmptyDict]),
      JDict([code |-> 200, data |-> Payload])>>

\* how one attempt of _request can end other than with a decoded body: the
\* two errors it catches and retries, a ClientError (an HTTP error status of
\* raise_for_status included), any other exception
Errors == {"timeout", "disconnect", "client_error", "other_error"}

\* the answers the GET of resolve_song_redirect can get
Responses ==
    {Response(FALSE, st, loc, "http://y/song.mp3") :
        st \in RedirectStatuses \cup {200, 204, 304, 404, 500},
        loc \in {None, "http://x/song.mp3"}}
    \cup {Response(TRUE, 0, None, None)}

\* a JSON-returning call enters _request with retry bound r: lines 19-25
ApiCall(call, source, search_type, r) ==
    /\ api.pc \in {"idle", "done"}
    /\ api' = [ApiIdle EXCEPT !.call = call,
                              !.search_type = IF call = "search" THEN search_type ELSE None,
                              !.params = request_params(call, "k", source, search_type),
                              !.retries = r,
                              !.pc = "get"]
    /\ UNCHANGED player

\* mutant: the loop takes one turn more
LastAttempt_one_more(attempt, retries) == attempt >= retries + 1

\* `for attempt in range(retries + 1)` has no further turn after this one
LastAttempt(attempt, retries) == attempt + 1 >= retries + 1

\* mutant: a disconnect ends the request like any other ClientError
Retried_only_timeout(outcome) == outcome = "timeout"

\* mutant: a ClientError is retried as well
Retried_also_client_error(outcome) == outcome \in {"timeout", "disconnect", "client_error"}

\* the errors after which the loop of _request goes on: lines 28-34
Retried(outcome) == outcome \in {"timeout", "disconnect"}

\* _request returns or raises; the call that made it returns its result
RequestEnds(a, req) ==
    [a EXCEPT !.pc = "done", !.req = req, !.result = Wrapper(a.call, req)]

\* lines 23 and 39-40: the next turn of the loop, or the last error raised
NextTurn(a) ==
    IF LastAttempt(a.attempt, a.retries)
    THEN RequestEnds(a, Raised(a.last_error))
    ELSE [a EXCEPT !.attempt = @ + 1, !.pc = "get"]

\* lines 24-37: one attempt ended, with body b decoded ("json") or an error
RequestDone(outcome, b) ==
    /\ api.pc = "get"
    /\ LET a == [api EXCEPT !.outcomes = Append(@, outcome)] IN
       IF outcome = "json"
       THEN api' = RequestEnds(a, Returned(Bodies[b]))
       ELSE IF Retried(outcome)
       THEN IF outcome = "disconnect"
            THEN api' = [a EXCEPT !.last_error = outcome, !.pc = "sleep"]
            ELSE api' = NextTurn([a EXCEPT !.last_error = outcome])
       ELSE api' = RequestEnds(a, Raised(outcome))
    /\ UNCHANGED player

\* line 34: the delay after a disconnect is over
SleepDone ==
    /\ api.pc = "sleep"
    /\ api' = NextTurn(api)
    /\ UNCHANGED player

\* lines 140-152: resolve_song_redirect, its GET answered with resp
ResolveRedirect(resp) ==
    /\ api.pc \in {"idle", "done"}
    /\ api' = [ApiIdle EXCEPT !.call = "resolve_song_redirect",
                              !.pc = "done",
                              !.resp = resp,
                              !.url = resolve_song_redirect(
                                          get_song_url_endpoint("123", "netease"), resp)]
    /\ UNCHANGED player

InitApi ==
    /\ playlist = <<>>
    /\ playlist_index = 0
    /\ shuffle = FALSE
    /\ repeat = "off"
    /\ advancing = FALSE
    /\ media_title = None
    /\ current_song_id = None
    /\ media_content_id = None
    /\ is_xiaoai_speaker = FALSE
    /\ tasks = [t \in 1..MaxTasks |-> Idle]
    /\ run = NoRun
    /\ ev = Step("init")
    /\ api = ApiIdle

NextApi ==
    \/ \E call \in JsonCalls, source \in {"netease", "kuwo"},
          search_type \in {"search", "aggregateSearch", "lyric"}, r \in 0..MaxRetries :
            ApiCall(call, source, search_type, r)
    \/ \E outcome \in Errors \cup {"json"}, b \in 1..Len(Bodies) : RequestDone(outcome, b)
    \/ SleepDone
    \/ \E resp \in Responses : ResolveRedirect(resp)

SpecApi == InitApi /\ [][NextApi]_vars

\* ------------------------------------------------------- browse facade
\* what the store and the remote client give a browse: the saved playlists,
\* the charts of a platform, the songs of a chart or of a search, the data of
\* a playlist (a store with no playlist goes with a platform with no chart)
Remotes ==
    {[saved |-> IF some THEN <<[source |-> "netease", id |-> "123"]>> ELSE <<>>,
      lists |-> IF some THEN <<"123">> ELSE <<>>,
      songs |-> songs,
      playlist_data |-> PlaylistData(kind, songs)] :
        some \in BOOLEAN,
        songs \in SongLists,
        kind \in {"none", "no_list", "list"}}

\* line 842: the children of the now_playing view, one per queued song
now_playing_children(queue) ==
    [j \in 1..Len(queue) |-> <<"now_playing_song", ":", IntStr(j - 1)>>]

\* line 988: the children of a playlist view, one per song of the playlist
playlist_children(source, playlist_id, songs) ==
    [j \in 1..Len(songs) |-> playlist_song_id(source, playlist_id, j - 1)]

\* the view every branch of the player's browse falls through to (lines
\* 1008-1017): the root's identifier and title, no children
DefaultView == BrowseMedia("default", <<>>, <<>>)

\* lines 975-1006 of TuneFreeMediaPlayer.async_browse_media, and the fallback
player_browse_playlist(content_id, remote) ==
    LET parts == Parts[content_id] IN
    IF startswith(content_id, <<"playlist", ":">>) /\ Len(parts) = 3 /\ Truthy(remote.playlist_data)
    THEN BrowseMedia("playlist", content_id,
                     playlist_children(parts[2], parts[3],
                         GetOr(remote.playlist_data, "list", EmptyList, EmptyList).v))
    ELSE DefaultView

\* TuneFreeMediaPlayer.async_browse_media(media_content_type, content_id) with
\* the queue as it is and what the store and the remote client return
player_browse_media(content_id, queue, remote) ==
    LET parts == Parts[content_id] IN
    IF content_id = <<>>
    THEN BrowseMedia("root", <<>>,
                     (IF queue # <<>> THEN <<<<"now_playing">>>> ELSE <<>>)
                     \o <<<<"toplists">>>>
                     \o (IF remote.saved # <<>> THEN <<<<"my_playlists">>>> ELSE <<>>))
    ELSE IF content_id = <<"now_playing">>
    THEN BrowseMedia("now_playing", content_id, now_playing_children(queue))
    ELSE IF content_id = <<"my_playlists">>
    THEN BrowseMedia("my_playlists", content_id,
                     [j \in 1..Len(remote.saved) |->
                         <<"playlist", ":", remote.saved[j].source, ":", remote.saved[j].id>>])
    ELSE IF content_id = <<"toplists">>
    THEN BrowseMedia("toplists", content_id,
                     <<<<"toplists", ":", "netease">>, <<"toplists", ":", "kuwo">>,
                       <<"toplists", ":", "qq">>>>)
    ELSE IF startswith(content_id, <<"toplists", ":">>)
    THEN BrowseMedia("toplists_source", content_id,
                     [j \in 1..Len(remote.lists) |->
                         <<"toplist", ":", parts[2], ":", remote.lists[j]>>])
    ELSE IF startswith(content_id, <<"toplist", ":">>) /\ Len(parts) = 3
    THEN BrowseMedia("toplist", content_id,
                     toplist_children(parts[2], parts[3], remote.songs))
    ELSE player_browse_playlist(content_id, remote)

\* line 271 of TuneFreeMediaSource._create_song_item: the identifier of a song
song_item(song, source) == <<source, ":", Str(song.id)>>

\* TuneFreeMediaSource.async_browse_media(item) with item.identifier =
\* identifier, the integration loaded or not
source_browse_media(loaded, identifier, remote) ==
    LET parts == Parts[identifier] IN
    IF ~loaded THEN BrowseError("MediaSourceError: not loaded")
    ELSE IF identifier = <<>>
    THEN BrowseMedia("root", <<>>, <<<<"toplists">>>>)
    ELSE IF identifier = <<"toplists">>
    THEN BrowseMedia("toplists", identifier,
                     <<<<"toplists", ":", "netease">>, <<"toplists", ":", "kuwo">>,
                       <<"toplists", ":", "qq">>>>)
    ELSE IF startswith(identifier, <<"toplists", ":">>)
    THEN BrowseMedia("toplists_source", <<"toplists", ":", parts[2]>>,
                     [j \in 1..Len(remote.lists) |->
                         <<"toplist", ":", parts[2], ":", remote.lists[j]>>])
    ELSE IF startswith(identifier, <<"toplist", ":">>) /\ Len(parts) = 3
    THEN BrowseMedia("toplist", <<"toplist", ":", parts[2], ":", parts[3]>>,
                     [j \in 1..Len(remote.songs) |-> song_item(remote.songs[j], parts[2])])
    ELSE IF startswith(identifier, <<"playlist", ":">>) /\ Len(parts) = 3
    THEN BrowseMedia("playlist", <<"playlist", ":", parts[2], ":", parts[3]>>,
                     IF Truthy(remote.playlist_data)
                     THEN LET songs == GetOr(remote.playlist_data, "list",
                                             EmptyList, EmptyList).v IN
                          [j \in 1..Len(songs) |-> song_item(songs[j], parts[2])]
                     ELSE <<>>)
    ELSE IF startswith(identifier, <<"search", ":">>)
    THEN BrowseMedia("search", identifier,
                     [j \in 1..Len(remote.songs) |-> song_item(remote.songs[j], "netease")])
    ELSE BrowseError("MediaSourceError: unknown media content id")

\* a browse of the player entity
BrowsePlayer(content_id, remote) ==
    /\ ev' = Viewed("player_browse_media", content_id,
                   player_browse_media(content_id, playlist, remote))
    /\ ev' # ev
    /\ UNCHANGED <<playlist, playlist_index, shuffle, repeat, advancing, session,
                   is_xiaoai_speaker, tasks, run, api>>

\* a browse of the media source
BrowseSource(loaded, identifier, remote) ==
    /\ ev' = Viewed("source_browse_media", identifier,
                   source_browse_media(loaded, identifier, remote))
    /\ ev' # ev
    /\ UNCHANGED <<playlist, playlist_index, shuffle, repeat, advancing, session,
                   is_xiaoai_speaker, tasks, run, api>>

\* the player with a queue and nothing in flight
InitBrowse ==
    /\ playlist \in SongLists
    /\ playlist_index = 0
    /\ shuffle = FALSE
    /\ repeat = "off"
    /\ advancing = FALSE
    /\ media_title = None
    /\ current_song_id = None
    /\ media_content_id = None
    /\ is_xiaoai_speaker = FALSE
    /\ tasks = [t \in 1..MaxTasks |-> Idle]
    /\ run = NoRun
    /\ ev = Step("init")
    /\ api = ApiIdle

\* browsing, and playing an identifier up to its first await
NextBrowse ==
    \/ \E content_id \in BrowseIds, remote \in Remotes : BrowsePlayer(content_id, remote)
    \/ \E identifier \in BrowseIds, remote \in Remotes : BrowseSource(TRUE, identifier, remote)
    \/ \E remote \in Remotes : BrowseSource(FALSE, <<>>, remote)
    \/ \E media_id \in ToplistSongIds, music \in BOOLEAN : PlayToplistSong(media_id, music)
    \/ \E media_id \in PlaylistSongIds, music \in BOOLEAN : PlayPlaylistSong(media_id, music)

SpecBrowse == InitBrowse /\ [][NextBrowse]_vars

\* ------------------------------------------------- the platform of a song
\* the platforms a song record can name
Platforms == {"netease", "qq"}

\* a song record with the keys platform and source, each present or not
Keyed(song, platform, source) ==
    [k \in DOMAIN song \cup (IF platform = None THEN {} ELSE {"platform"})
                       \cup (IF source = None THEN {} ELSE {"source"}) |->
        IF k = "platform" THEN platform ELSE IF k = "source" THEN source ELSE song[k]]

\* the song lists the remote client returns, with or without those keys
KeyedLists ==
    UNION {[1..n -> {Keyed(SongRec(1), platform, source) :
                        platform, source \in Platforms \cup {None}}] : n \in 0..MaxLen}

\* line 299: the source reported for a queued song
attr_source(song) == get(song, "source", get(song, "platform", "netease"))

\* lines 293-302: the playlist attribute of extra_state_attributes
attrs_playlist(queue) ==
    [j \in 1..Len(queue) |->
        [name |-> queue[j].name, id |-> Str(queue[j].id), source |-> attr_source(queue[j])]]

\* a read of extra_state_attributes
ExtraStateAttributes ==
    /\ playlist # <<>>
    /\ ev' = [Step("extra_state_attributes") EXCEPT !.attrs = attrs_playlist(playlist)]
    /\ ev' # ev
    /\ UNCHANGED <<playlist, playlist_index, shuffle, repeat, advancing, session,
                   is_xiaoai_speaker, tasks, run, api>>

\* a chart, a playlist or a search is played, its songs keyed or not, the
\* queue is activated and its attributes are read
NextPlatform ==
    \/ PlayToplist(<<"toplist", ":", "netease", ":", "123">>)
    \/ \E t \in TaskIds, songs \in KeyedLists : FetchDone(t, songs)
    \/ PlayPlaylist(<<"playlist", ":", "netease", ":", "123">>, TRUE)
    \/ \E t \in TaskIds, songs \in KeyedLists : PlaylistDone(t, PlaylistData("list", songs))
    \/ PlaySearch
    \/ \E t \in TaskIds, songs \in KeyedLists : SearchDone(t, songs)
    \/ \E t \in TaskIds : StopDone(t)
    \/ \E t \in TaskIds : Resolved(t, TRUE)
    \/ \E t \in TaskIds : MetaDone(t)
    \/ \E t \in TaskIds : PlayDone(t, TRUE)
    \/ ExtraStateAttributes

SpecPlatform == Init /\ [][NextPlatform]_vars

\* ------------------------------------------------ overlapping operations
\* the coroutines that can be in flight at once when operations overlap
RaceTasks == 2

\* the player as constructed, with room for RaceTasks coroutines
InitRace ==
    /\ playlist = <<>>
    /\ playlist_index = 0
    /\ shuffle = FALSE
    /\ repeat = "off"
    /\ advancing = FALSE
    /\ media_title = None
    /\ current_song_id = None
    /\ media_content_id = None
    /\ is_xiaoai_speaker \in BOOLEAN
    /\ tasks = [t \in 1..RaceTasks |-> Idle]
    /\ run = NoRun
    /\ ev = Step("init")
    /\ api = ApiIdle

\* a chart of two songs is played, the user moves in the queue, the target
\* player changes state and reports finished tracks, and every activation
\* runs to its end, each at its own pace
NextRace ==
    \/ PlayToplist(<<"toplist", ":", "netease", ":", "123">>)
    \/ \E t \in TaskIds : FetchDone(t, <<SongRec(1), SongRec(2)>>)
    \/ NextTrack
    \/ PreviousTrack
    \/ \E old, new \in TargetStates \cup {None} : TargetStateChanged(old, new)
    \/ \E t \in TaskIds : StartTask(t)
    \/ CheckPosition("playing", 1, 3, Absent)
    \/ \E t \in TaskIds : StopDone(t)
    \/ \E t \in TaskIds, ok \in BOOLEAN : Resolved(t, ok)
    \/ \E t \in TaskIds : MetaDone(t)
    \/ \E t \in TaskIds : PlayDone(t, TRUE)

SpecRace == InitRace /\ [][NextRace]_vars

\* ------------------------------------------------------- single-song leaves
\* the uri prefix of a media-source identifier of this integration
UriPrefix == "media-source://tunefree/"

\* the platforms a song identifier can name
KnownSources == {"netease", "kuwo", "qq"}

\* s.split(":", 1): the string up to its first ":" and the rest, or the string
\* alone
split1(s) ==
    IF \E j \in 1..Len(s) : s[j] = ":"
    THEN LET j == CHOOSE k \in 1..Len(s) : s[k] = ":" /\ \A m \in 1..(k - 1) : s[m] # ":"
         IN <<SubSeq(s, 1, j - 1), SubSeq(s, j + 1, Len(s))>>
    ELSE <<s>>

NotUriPrefix(piece) == piece # UriPrefix

\* media_id.replace("media-source://tunefree/", ""): every occurrence goes
StripUri(media_id) == SelectSeq(media_id, NotUriPrefix)

\* media_source.py line 271: f"{source}:{song_id}" for a song id given by its
\* pieces
leaf_identifier(source, song_id) == <<source, ":">> \o song_id

\* the uri the media source framework gives a leaf
leaf_uri(identifier) == <<UriPrefix>> \o identifier

\* media_source.py lines 51-57 and media_player.py lines 534-539: the platform
\* and the song id an identifier names
SongOf(identifier) ==
    LET parts == split1(identifier) IN
    IF Len(parts) = 2 /\ Text(parts[1]) \in KnownSources
    THEN [source |-> Text(parts[1]), id |-> Text(parts[2])]
    ELSE [source |-> "netease", id |-> Text(identifier)]

\* what a resolution gave its caller
PlayMedia(url) == [how |-> "return", kind |-> "audio/mpeg", media_content_id |-> url, children |-> <<>>]

\* TuneFreeMediaSource.async_resolve_media(item) with item.identifier =
\* identifier; ok: the redirect is resolved
ResolveMedia(identifier, ok) ==
    /\ LET song == SongOf(identifier)
           url_endpoint == get_song_url_endpoint(song.id, song.source)
           final_url == resolve_song_redirect(url_endpoint, Answer(url_endpoint, ok))
       IN ev' = Viewed("resolve_media", identifier,
                       IF final_url # None THEN PlayMedia(final_url)
                       ELSE BrowseError("Unresolvable"))
    /\ ev' # ev
    /\ UNCHANGED <<playlist, playlist_index, shuffle, repeat, advancing, session,
                   is_xiaoai_speaker, tasks, run, api>>

\* media_player.py lines 526-541: async_play_media(media_type, media_id) with a
\* media-source uri, up to the await of get_song_info; a toplist_song or
\* playlist_song identifier inside the uri is played as async_play_media plays
\* it
PlayMediaSource(media_id, music) ==
    LET identifier == StripUri(media_id) IN
    IF startswith(identifier, <<"toplist_song", ":">>)
    THEN PlayToplistSong(identifier, music)
    ELSE IF startswith(identifier, <<"playlist_song", ":">>)
    THEN PlayPlaylistSong(identifier, music)
    ELSE /\ \E t \in TaskIds :
              /\ FreeSlot(t)
              /\ tasks' = [tasks EXCEPT ![t] =
                              [Idle EXCEPT !.pc = "leaf_info", !.media_id = media_id,
                                           !.list = <<SongOf(identifier).source,
                                                      SongOf(identifier).id>>]]
         /\ run' = Begin("leaf", FALSE, playlist_index, playlist_index)
         /\ ev' = [Step("play_media_source") EXCEPT !.got.for = identifier]
         /\ UNCHANGED <<engine, session, is_xiaoai_speaker, api>>

\* media_player.py lines 542-552: get_song_info returned (found: with a song
\* record, named after the song id here)
LeafInfoDone(t, found) ==
    /\ tasks[t].pc = "leaf_info"
    /\ media_title' = IF found THEN "song" \o tasks[t].list[2] ELSE media_title
    /\ tasks' = [tasks EXCEPT ![t] = [@ EXCEPT !.pc = "leaf_resolve"]]
    /\ run' = run
    /\ ev' = Step("leaf_info_done")
    /\ UNCHANGED <<engine, current_song_id, media_content_id, is_xiaoai_speaker, api>>

\* media_player.py lines 551-578: the one resolve_song_redirect call of a leaf
\* returned (ok: with a url); play_media is called with the url
LeafResolved(t, ok) ==
    /\ tasks[t].pc = "leaf_resolve"
    /\ LET url_endpoint == get_song_url_endpoint(tasks[t].list[2], tasks[t].list[1])
           final_url == resolve_song_redirect(url_endpoint, Answer(url_endpoint, ok))
       IN IF final_url = None
          THEN /\ tasks' = [tasks EXCEPT ![t] = Idle]
               /\ run' = NoRun
               /\ ev' = Exit(Step("leaf_resolved"), "unresolved", Tried(run))
               /\ UNCHANGED session
          ELSE /\ media_content_id' = Text(tasks[t].media_id)
               /\ tasks' = [tasks EXCEPT ![t] = [@ EXCEPT !.pc = "leaf_play", !.url = final_url]]
               /\ run' = Commanded(Tried(run), final_url)
               /\ ev' = Sent(Step("leaf_resolved"), "play_media")
               /\ UNCHANGED <<media_title, current_song_id>>
    /\ UNCHANGED <<engine, is_xiaoai_speaker, api>>

\* mutant: the end of a leaf play clears the advancing guard, as the end of an
\* activation does
LeafPlayDone_clears_guard(t, ok) ==
    /\ tasks[t].pc = "leaf_play"
    /\ advancing' = FALSE
    /\ tasks' = [tasks EXCEPT ![t] = Idle]
    /\ run' = NoRun
    /\ ev' = Exit(Step("leaf_play_done"), IF ok THEN "played" ELSE "raise", run)
    /\ UNCHANGED <<playlist, playlist_index, shuffle, repeat, session, is_xiaoai_speaker, api>>

\* media_player.py lines 568-592: the play_media call of a leaf or of a plain
\* url returned (ok) or raised
LeafPlayDone(t, ok) ==
    /\ tasks[t].pc = "leaf_play"
    /\ tasks' = [tasks EXCEPT ![t] = Idle]
    /\ run' = NoRun
    /\ ev' = Exit(Step("leaf_play_done"), IF ok THEN "played" ELSE "raise", run)
    /\ UNCHANGED <<engine, session, is_xiaoai_speaker, api>>

\* media_player.py lines 579-590: async_play_media(media_type, url) with a
\* plain url, up to the await of play_media
PlayUrl(url) ==
    /\ \E t \in TaskIds :
         /\ FreeSlot(t)
         /\ tasks' = [tasks EXCEPT ![t] = [Idle EXCEPT !.pc = "leaf_play", !.url = url]]
    /\ media_content_id' = url
    /\ run' = Commanded(Begin("url", FALSE, playlist_index, playlist_index), url)
    /\ ev' = Sent(Step("play_url"), "play_media")
    /\ UNCHANGED <<engine, media_title, current_song_id, is_xiaoai_speaker, api>>

\* the song ids a leaf can carry, given by their pieces: plain ones, ids with
\* a colon, an id that starts like a platform, and an id that holds the uri
\* prefix
LeafSongIds ==
    {<<"1">>, <<"2">>, <<"a", ":", "b">>, <<"qq", ":", "1">>, <<UriPrefix, "x">>}

\* the identifiers a leaf play or a resolution is asked for: the identifiers
\* of browse leaves, identifiers without a platform, and the identifier of a
\* chart position
LeafIds ==
    {leaf_identifier(source, song_id) : source \in KnownSources, song_id \in LeafSongIds}
    \cup {<<"1">>, <<"bogus", ":", "1">>, <<"netease">>,
           toplist_song_id("netease", "123", 0)}

\* the identifiers played as leaves: a browse leaf, one whose song id has a
\* colon, one whose song id holds the uri prefix, one without a platform, and
\* a chart position
PlayedLeafIds ==
    {leaf_identifier("netease", <<"1">>), leaf_identifier("kuwo", <<"a", ":", "b">>),
     leaf_identifier("qq", <<UriPrefix, "x">>), <<"bogus", ":", "1">>,
     toplist_song_id("netease", "123", 0)}

\* a chart of two songs is played and the target player reports a finished
\* track, while single songs are played and plain urls are forwarded
NextLeaf ==
    \/ PlayToplist(<<"toplist", ":", "netease", ":", "123">>)
    \/ \E t \in TaskIds : FetchDone(t, <<SongRec(1), SongRec(2)>>)
    \/ TargetStateChanged("playing", "idle")
    \/ \E t \in TaskIds : StartTask(t)
    \/ SetRepeat("all")
    \/ \E t \in TaskIds : StopDone(t)
    \/ \E t \in TaskIds : Resolved(t, TRUE)
    \/ \E t \in TaskIds : MetaDone(t)
    \/ \E t \in TaskIds, ok \in BOOLEAN : PlayDone(t, ok)
    \/ \E identifier \in PlayedLeafIds, music \in BOOLEAN :
          PlayMediaSource(leaf_uri(identifier), music)
    \/ \E t \in TaskIds, found \in BOOLEAN : LeafInfoDone(t, found)
    \/ \E t \in TaskIds, ok \in BOOLEAN : LeafResolved(t, ok)
    \/ \E t \in TaskIds, ok \in BOOLEAN : LeafPlayDone(t, ok)
    \/ PlayUrl("http://host/a.mp3")

SpecLeaf == Init /\ [][NextLeaf]_vars

\* identifiers are resolved by the media source and taken apart by the player
\* that is asked to play them
NextResolve ==
    \/ \E identifier \in LeafIds, ok \in BOOLEAN : ResolveMedia(identifier, ok)
    \/ \E identifier \in LeafIds, music \in BOOLEAN :
          PlayMediaSource(leaf_uri(identifier), music)

SpecResolve == Init /\ [][NextResolve]_vars

\* ================================================================ claims
\* the two handlers that report a finished track
Triggers == {"state_changed", "check_position"}

\* the step just taken ended an operation that entered set_playlist or
\* _play_current_track and ran with no other operation of the player in between
Ended == ev.exit \in {"played", "raise", "exhausted", "noop"} /\ ev.run # NoRun

\* the session shows this song
SessionIs(song) == media_title = song.name /\ current_song_id = Str(song.id)

\* the url the remote client resolves for a song
UrlOf(song) == Location(get_song_url_endpoint(Str(song.id), SourceOf(song)))

\* C1 as stated: once set_playlist(songs, k) with 0 <= k < len(songs) has
\* completed, the cursor is k and the session shows songs[k].
C1_ActiveSongIsStartSong ==
    (Ended /\ ev.run.op = "set_playlist" /\ 0 <= ev.run.first /\ ev.run.first < Len(playlist))
        => /\ playlist_index = ev.run.first
           /\ SessionIs(playlist[ev.run.first + 1])

\* C1 amended: once set_playlist(songs, k) with 0 <= k < len(songs) has
\* completed, the cursor is k plus the number of tracks skipped because their
\* url did not resolve in three attempts, it is inside the queue, and the
\* session shows the song there; so it is songs[k] when no track was skipped.
C1_ActiveSongAfterSetPlaylist ==
    (Ended /\ ev.run.op = "set_playlist" /\ 0 <= ev.run.first /\ ev.run.first < Len(playlist))
        => LET j == ev.run.first + ev.run.skipped IN
           /\ j < Len(playlist)
           /\ playlist_index = j
           /\ SessionIs(playlist[j + 1])
           /\ (ev.run.skipped = 0 => SessionIs(playlist[ev.run.first + 1]))
           /\ (ev.exit = "played" => ev.run.url = UrlOf(playlist[j + 1]))

C1_Witness ==
    /\ Ended
    /\ ev.run.op = "set_playlist"
    /\ ev.exit = "played"
    /\ Len(playlist) = 2
    /\ playlist[1] # playlist[2]
    /\ ev.run.first = 1
    /\ ev.run.skipped = 0

\* C2: in a 2-song queue an activation started at cursor 0 whose track 0 failed
\* every attempt and whose track 1 resolved ends with the cursor and the session
\* on track 1 and exactly one play_media sent, carrying track 1's resolved url.
C2_SkipsToSecondTrack ==
    (/\ Ended
     /\ ev.exit \in {"played", "raise"}
     /\ Len(playlist) = 2
     /\ ev.run.first = 0
     /\ ev.run.skipped = 1)
        => /\ playlist_index = 1
           /\ SessionIs(playlist[2])
           /\ ev.run.cmds = 1
           /\ ev.run.url = UrlOf(playlist[2])
           /\ ev.run.tries > MaxAttempts
           /\ ev.run.tries <= 2 * MaxAttempts

C2_Witness ==
    /\ Ended
    /\ ev.exit = "played"
    /\ Len(playlist) = 2
    /\ playlist[1] # playlist[2]
    /\ ev.run.first = 0
    /\ ev.run.skipped = 1

C4_GuardClearedOnEveryExit ==
    (ev.exit # "none" /\ ev.run # NoRun /\ ev.run.trig) => ~advancing

\* C5: a trigger that finds the guard set changes nothing and sends nothing, and
\* the guard stays set for as long as the activation a trigger started is in
\* flight, so a second trigger for the same track end is such a trigger.
C5_GuardedTriggerIsNoOp ==
    /\ []((run # NoRun /\ run.trig) => advancing)
    /\ [][(ev'.act \in Triggers /\ advancing)
            => /\ UNCHANGED <<playlist, playlist_index, shuffle, repeat, advancing,
                              media_title, current_song_id, media_content_id, tasks, run>>
               /\ ev'.cmd = "none"
               /\ ev'.exit = "none"]_vars

C5_Witness ==
    /\ ev.act = "check_position"
    /\ ev.hit
    /\ advancing
    /\ run # NoRun
    /\ run.trig
    /\ \E t \in TaskIds : tasks[t].pc = "created"

\* C6 as stated: with repeat = one, after the activation a track-finished
\* trigger started has ended the cursor equals its value before the trigger.
C6_CursorUnchangedAfterRepeatOne ==
    (Ended /\ ev.run.trig /\ repeat = "one") => playlist_index = ev.run.pre

\* C6 amended: with repeat = one the trigger starts the activation at the
\* cursor it found, and when that activation has ended the cursor is that
\* value plus the number of tracks skipped because their url did not resolve.
C6_RepeatOneReactivates ==
    (Ended /\ ev.run.trig /\ repeat = "one")
        => /\ ev.run.first = ev.run.pre
           /\ playlist_index = ev.run.pre + ev.run.skipped
           /\ (ev.run.skipped = 0 => playlist_index = ev.run.pre)

C6_Witness ==
    /\ Ended
    /\ ev.run.trig
    /\ repeat = "one"
    /\ ev.exit = "played"
    /\ ev.run.skipped = 0
    /\ Len(playlist) = 2
    /\ playlist_index = 0

\* C7: with repeat = off and the cursor on the last index, a trigger leaves the
\* queue, the cursor, the session and the guard as they were, starts nothing
\* and sends nothing; the guard is false after a trigger that found it false.
C7_EndOfQueueIsNoOp ==
    [][(/\ ev'.act \in Triggers
        /\ repeat = "off"
        /\ playlist # <<>>
        /\ playlist_index = Len(playlist) - 1)
          => /\ UNCHANGED <<playlist, playlist_index, shuffle, repeat, advancing,
                            media_title, current_song_id, media_content_id, tasks>>
             /\ ev'.cmd = "none"
             /\ ev'.exit = "none"
             /\ (~advancing => ~advancing')]_vars

C7_Witness ==
    /\ ev.act \in Triggers
    /\ ev.hit
    /\ repeat = "off"
    /\ playlist # <<>>
    /\ playlist_index = Len(playlist) - 1
    /\ ~advancing
    /\ AllIdle

\* an activation was started by the step
Started == tasks' # tasks \/ ev'.exit # "none"

\* C8: a trigger that fires (finished track reported, queue non-empty, guard
\* clear) picks the index in this order: repeat = one -> the cursor; a next
\* index exists -> cursor + 1; repeat = all -> 0; else nothing is activated.
C8_TriggerPriority ==
    [][(ev'.act \in Triggers /\ ev'.hit /\ playlist # <<>> /\ ~advancing)
          => IF repeat = "one"
             THEN playlist_index' = playlist_index /\ Started
             ELSE IF playlist_index < Len(playlist) - 1
             THEN playlist_index' = playlist_index + 1 /\ Started
             ELSE IF repeat = "all"
             THEN playlist_index' = 0 /\ Started
             ELSE playlist_index' = playlist_index /\ ~Started /\ ~advancing']_vars

C8_Witness ==
    /\ ev.act = "state_changed"
    /\ ev.hit
    /\ repeat = "all"
    /\ Len(playlist) = 2
    /\ playlist_index = 0
    /\ run # NoRun
    /\ run.pre = 1
    /\ \E t \in TaskIds : tasks[t].pc = "created"

\* C9: async_set_shuffle(True) on a non-empty queue with the cursor in range
\* leaves the cursor where it is and the same song under it.
C9_ShuffleKeepsCurrentSong ==
    [][(/\ ev'.act = "set_shuffle"
        /\ shuffle'
        /\ playlist # <<>>
        /\ 0 <= playlist_index
        /\ playlist_index < Len(playlist))
          => /\ playlist_index' = playlist_index
             /\ Len(playlist') = Len(playlist)
             /\ playlist'[playlist_index + 1] = playlist[playlist_index + 1]]_vars

C9_Witness ==
    /\ ev.act = "set_shuffle"
    /\ ev.hit
    /\ shuffle
    /\ Len(playlist) = 3
    /\ 0 <= playlist_index
    /\ playlist_index < Len(playlist)
    /\ \E a, b \in 1..3 : a # b /\ playlist[a] = playlist[b]
    /\ \E a, b \in 1..3 : playlist[a] # playlist[b]

\* C10 as stated: whenever the queue is non-empty the cursor is inside it.
C10_CursorInRange ==
    playlist # <<>> => (0 <= playlist_index /\ playlist_index < Len(playlist))

\* the index is a position of the queue
InQueue(i) == 0 <= i /\ i < Len(playlist)

\* the step started the activation of the track at index i
ActivatedAt(i) ==
    /\ playlist' = playlist
    /\ playlist_index' = i
    /\ \E t \in TaskIds : tasks[t] = Idle /\ tasks'[t].pc \in {"stop", "resolve"}

\* the step left the queue alone and forwarded the one raw command cmd
ForwardedRaw(cmd) ==
    /\ UNCHANGED <<playlist, playlist_index, tasks>>
    /\ ev'.cmd = cmd

\* C11 as stated: a user next (previous) moves the cursor by one and activates
\* the track there when cursor + 1 (cursor - 1) is inside the queue; otherwise
\* it leaves the queue and the cursor alone and forwards exactly one raw
\* media_next_track (media_previous_track) command, whatever the repeat mode.
C11_NextPreviousWithinBounds ==
    [][/\ ev'.act = "next_track"
            => IF InQueue(playlist_index + 1)
               THEN ActivatedAt(playlist_index + 1)
               ELSE ForwardedRaw("media_next_track")
       /\ ev'.act = "previous_track"
            => IF InQueue(playlist_index - 1)
               THEN ActivatedAt(playlist_index - 1)
               ELSE ForwardedRaw("media_previous_track")]_vars

\* C12: a request built by search with search_type = aggregateSearch carries no
\* source parameter; built with any other search_type it carries a source
\* parameter and type = search.
C12_SourceOnlyInPlainSearch ==
    api.call = "search"
        => /\ api.search_type = "aggregateSearch" => "source" \notin DOMAIN api.params
           /\ api.search_type # "aggregateSearch"
                => ("source" \in DOMAIN api.params /\ api.params.type = "search")

C12_Witness ==
    /\ api.call = "search"
    /\ api.search_type = "aggregateSearch"
    /\ api.pc = "get"
    /\ api.attempt = 1
    /\ api.params.type = "aggregateSearch"

\* C13: resolve_song_redirect returns the Location header (None when the
\* response has none) for a status in {301, 302, 303, 307, 308}, the
\* response's own url for status 200, and None for any other status and when
\* the request raised; it always returns.
C13_RedirectMapping ==
    api.call = "resolve_song_redirect"
        => /\ api.pc = "done"
           /\ api.url = (IF api.resp.fault THEN None
                         ELSE IF api.resp.status \in {301, 302, 303, 307, 308}
                         THEN api.resp.location
                         ELSE IF api.resp.status = 200 THEN api.resp.url
                         ELSE None)

C13_Witness ==
    /\ api.call = "resolve_song_redirect"
    /\ api.resp.status = 307
    /\ api.url = "http://x/song.mp3"

\* why a JSON-returning call has nothing to return: its request raised, the
\* body is not an object with a code, or the code is not 200
Cause(req) ==
    IF req.how = "raise" THEN "request_failed"
    ELSE IF req.value.t # "dict" THEN "no_wrapper"
    ELSE IF "code" \notin DOMAIN req.value.v THEN "no_wrapper"
    ELSE IF req.value.v.code # 200 THEN "bad_code"
    ELSE "code_200"

\* the empty result of a call: an empty list, None for the two calls that
\* return an object
EmptyResult(call) ==
    IF call \in {"get_song_info", "get_playlist"} THEN JNull ELSE EmptyList

\* C14: a JSON-returning call whose request raised, whose body lacks the
\* wrapper or whose code is not 200 returns: its result is the empty result
\* of that call, the same for the three causes.
C14_EmptyResultNeverRaises ==
    (api.call \in JsonCalls /\ api.pc = "done" /\ Cause(api.req) # "code_200")
        => api.result = EmptyResult(api.call)

C14_Witness ==
    /\ api.call = "get_playlist"
    /\ api.pc = "done"
    /\ Cause(api.req) = "request_failed"
    /\ api.retries = 2
    /\ Len(api.outcomes) = 3
    /\ api.result = JNull

\* the attempts _request has made, the one in flight included
AttemptsMade == Len(api.outcomes) + (IF api.pc = "get" THEN 1 ELSE 0)

\* C15: _request with retry bound r makes at most r + 1 attempts; when every
\* attempt timed out it has made exactly r + 1 and raises the last error; an
\* attempt that succeeds is the last one and its response is returned.
C15_AtMostRPlusOneAttempts ==
    api.call \in JsonCalls
        => /\ AttemptsMade <= api.retries + 1
           /\ (api.pc = "done" /\ \A i \in 1..Len(api.outcomes) : api.outcomes[i] = "timeout")
                => /\ Len(api.outcomes) = api.retries + 1
                   /\ api.req = Raised("timeout")
           /\ \A i \in 1..Len(api.outcomes) :
                api.outcomes[i] = "json"
                    => /\ i = Len(api.outcomes)
                       /\ api.pc = "done"
                       /\ api.req.how = "return"

C15_Witness ==
    /\ api.call \in JsonCalls
    /\ api.pc = "done"
    /\ api.retries = 2
    /\ api.outcomes = <<"timeout", "timeout", "timeout">>

\* C16 as stated: after a disconnect at most one further attempt is made for
\* that request.
C16_DisconnectRetriedOnce ==
    api.call \in JsonCalls
        => \A i \in 1..Len(api.outcomes) :
                api.outcomes[i] = "disconnect" => AttemptsMade - i <= 1

\* C16 amended: a disconnect is retried like a timeout, after the delay and
\* within the same bound: a disconnect at attempt i <= r is followed, once the
\* delay is over, by a further attempt, at most r + 1 attempts are made in
\* all, and a disconnect at attempt r + 1 ends the request with that error.
C16_DisconnectRetriedWithinBound ==
    api.call \in JsonCalls
        => \A i \in 1..Len(api.outcomes) :
                api.outcomes[i] = "disconnect"
                    => /\ AttemptsMade <= api.retries + 1
                       /\ IF i = Len(api.outcomes) /\ api.pc = "sleep" THEN TRUE
                          ELSE IF i <= api.retries THEN AttemptsMade > i
                          ELSE api.pc = "done" /\ api.req = Raised("disconnect")

C16_Witness ==
    /\ api.call \in JsonCalls
    /\ api.retries = 2
    /\ api.outcomes = <<"disconnect", "disconnect">>
    /\ api.pc = "get"

\* C17: an error of an attempt that is neither a timeout nor a disconnect is
\* the last thing the request does: no attempt follows it and _request raises
\* it, whatever the attempt number.
C17_OtherErrorsEndRequest ==
    api.call \in JsonCalls
        => \A i \in 1..Len(api.outcomes) :
                api.outcomes[i] \in {"client_error", "other_error"}
                    => /\ i = Len(api.outcomes)
                       /\ api.pc = "done"
                       /\ api.req = Raised(api.outcomes[i])

C17_Witness ==
    /\ api.call \in JsonCalls
    /\ api.pc = "done"
    /\ api.retries = 2
    /\ api.outcomes = <<"timeout", "client_error">>

\* the step handed the list of a toplist_song identifier to the coroutine t
\* that awaited it
ToplistSongFetched(t) ==
    /\ tasks[t].pc = "fetch"
    /\ tasks'[t] # tasks[t]
    /\ IsToplistSong[tasks[t].media_id]
    /\ ev'.act = "fetch_done"

\* C18 as stated: playing toplist_song:<platform>:<listId>:<index> replaces the
\* queue with the song list fetched for the chart and sets the cursor to
\* <index>.
C18_QueueReplacedCursorSet ==
    [][\A t \in TaskIds :
          ToplistSongFetched(t)
              => /\ playlist' = ev'.got.songs
                 /\ playlist_index' = tasks[t].start]_vars

\* C18 amended: the identifier the browse view shows for the song at index i
\* of a chart is parsed back to that platform, that chart and start index i;
\* when the fetch returns at least one song the queue becomes the full list
\* and the cursor the index parsed, and with the index inside the list the
\* activation starts on the song at that index of the list fetched; when the
\* fetch returns none, queue and cursor stay as they were.
C18_ToplistSongRoundTrip ==
    /\ [](\A t \in TaskIds :
            tasks[t].pc = "fetch"
                => \A songs \in SongLists : \A j \in 1..Len(songs) :
                      tasks[t].media_id = toplist_children("netease", "123", songs)[j]
                          => /\ tasks[t].list = <<"netease", "123">>
                             /\ tasks[t].start = j - 1)
    /\ [][\A t \in TaskIds :
            ToplistSongFetched(t)
                => LET songs == ev'.got.songs
                       i == tasks[t].start
                   IN IF songs # <<>>
                      THEN /\ playlist' = songs
                           /\ playlist_index' = i
                           /\ (0 <= i /\ i < Len(songs))
                                => /\ ev'.exit = "none"
                                   /\ \/ tasks'[t].pc = "stop"
                                      \/ /\ tasks'[t].pc = "resolve"
                                         /\ tasks'[t].song = songs[i + 1]
                                         /\ media_title' = songs[i + 1].name
                                         /\ current_song_id' = Str(songs[i + 1].id)
                      ELSE UNCHANGED <<playlist, playlist_index>>]_vars

C18_Witness ==
    /\ ev.act = "fetch_done"
    /\ Len(ev.got.songs) = 2
    /\ ev.got.for = toplist_children("netease", "123", ev.got.songs)[2]
    /\ playlist = ev.got.songs
    /\ playlist_index = 1
    /\ playlist[1] # playlist[2]
    /\ \E t \in TaskIds : tasks[t].pc = "resolve" /\ tasks[t].song = playlist[2]

\* C19 as stated: after a play action on toplist:, playlist: or search: the
\* queue length equals the number of songs the remote client returned, for
\* every list size.
C19_QueueLengthIsResolved ==
    (/\ ev.act \in {"fetch_done", "playlist_done", "search_done"}
     /\ ev.got.some
     /\ ev.act = "fetch_done" => ~IsToplistSong[ev.got.for])
        => Len(playlist) = Len(ev.got.songs)

\* the first n elements of l, or all of them
FirstOf(l, n) == IF Len(l) < n THEN Len(l) ELSE n

\* C19 amended: a non-empty chart becomes the queue in full, the list of a
\* playlist becomes the queue in full whatever its size, and of a non-empty
\* search result the first search_limit songs become the queue, in their
\* order; an empty chart or search result leaves the queue as it was.
C19_QueueHoldsResolvedSongs ==
    /\ []((ev.act = "fetch_done" /\ ~IsToplistSong[ev.got.for] /\ ev.got.songs # <<>>)
            => playlist = ev.got.songs)
    /\ []((ev.act = "playlist_done" /\ ev.got.some) => playlist = ev.got.songs)
    /\ []((ev.act = "search_done" /\ ev.got.songs # <<>>)
            => /\ Len(playlist) = FirstOf(ev.got.songs, search_limit)
               /\ \A j \in 1..Len(playlist) : playlist[j] = ev.got.songs[j])
    /\ [][(ev'.act \in {"fetch_done", "search_done"} /\ ev'.got.songs = <<>>)
            => UNCHANGED <<playlist, playlist_index>>]_vars

C19_Witness ==
    /\ ev.act = "search_done"
    /\ Len(ev.got.songs) = search_limit + 1
    /\ Len(playlist) = search_limit
    /\ playlist[1] # playlist[2]

\* C20 as stated: a failure of the play_media command does not leave the
\* operation that issued it: the operation returns normally.
C20_NoCommandFaultEscapes ==
    ev.act = "play_done" => ev.exit # "raise"

\* C21 as stated: a malformed identifier (wrong number of parts, unknown
\* prefix, index that is no number) given to a browse yields the default view
\* and raises nothing, and given to play raises nothing.
C21_MalformedNeverRaises ==
    /\ (/\ ev.act \in {"player_browse_media", "source_browse_media"}
        /\ ev.got.for \in MalformedIds
        /\ ev.view.kind # "MediaSourceError: not loaded")
            => /\ ev.view.how = "return"
               /\ ev.view.kind = "default"
    /\ ev.act \in {"play_toplist_song", "play_playlist_song"} => ev.exit # "raise"

\* the platform C22 names for a song record: its platform key, else its
\* source key, else netease
PlatformFirst(song) ==
    IF "platform" \in DOMAIN song THEN song.platform
    ELSE IF "source" \in DOMAIN song THEN song.source
    ELSE "netease"

\* C22 as stated: the platform a queued song is resolved on and the source
\* reported for it in the playlist attribute are both the record's platform
\* key if present, else its source key, else netease.
C22_PlatformFirstEverywhere ==
    /\ \A t \in TaskIds :
          tasks[t].pc \in {"meta", "play"}
              => /\ tasks[t].url = Location(get_song_url_endpoint(
                                                Str(tasks[t].song.id), PlatformFirst(tasks[t].song)))
                 /\ media_content_id = "media-source://tunefree/"
                                            \o PlatformFirst(tasks[t].song) \o ":"
                                            \o Str(tasks[t].song.id)
    /\ ev.act = "extra_state_attributes"
          => \A j \in 1..Len(playlist) : ev.attrs[j].source = PlatformFirst(playlist[j])

\* C23: while the polling fallback is not enabled (is_xiaoai_speaker false) no
\* poll tick runs, the fallback stays disabled, and every track-finished
\* advance that starts is started by a playing->idle state-change event.
C23_NoPollingByDefault ==
    [][~is_xiaoai_speaker
          => /\ ev'.act # "check_position"
             /\ ~is_xiaoai_speaker'
             /\ (run'.op = "finished" /\ run.op # "finished")
                   => (ev'.act = "state_changed" /\ ev'.hit)]_vars

C23_Witness ==
    /\ ~is_xiaoai_speaker
    /\ ev.act = "state_changed"
    /\ ev.hit
    /\ advancing
    /\ run.op = "finished"
    /\ playlist_index = 1
    /\ \E t \in TaskIds : tasks[t].pc = "created"

\* an execution of _play_current_track is in flight in slot t
InFlight(t) == tasks[t].pc \in {"stop", "resolve", "meta", "play"}

\* C24 as stated: at no time are two executions of _play_current_track in
\* flight at once.
C24_OneActivationAtATime ==
    Cardinality({t \in TaskIds : InFlight(t)}) <= 1

\* C25 as stated: the advancing guard is set whenever a resolution attempt is
\* in flight, whoever started the activation, and while an activation started
\* by a user action has a resolution in flight, a playing->idle event or a
\* poll tick neither moves the cursor nor starts a second activation.
C25_UserActivationHoldsGuard ==
    /\ [](\A t \in TaskIds : tasks[t].pc = "resolve" => advancing)
    /\ [][((\E t \in TaskIds : tasks[t].pc = "resolve" /\ ~tasks[t].trig)
              /\ ev'.act \in Triggers)
                => /\ playlist_index' = playlist_index
                   /\ tasks' = tasks]_vars

\* C26 as stated: the advancing guard stays true as long as an activation
\* that a track-finished trigger started has not finished, whatever other
\* operation completes in the meantime.
C26_GuardHeldUntilTriggeredActivationEnds ==
    \A t \in TaskIds :
        (tasks[t].trig /\ (tasks[t].pc = "created" \/ InFlight(t))) => advancing

\* C27: the two triggers make the same track-finished transition.  In every
\* state they fire under the same condition on queue and guard and decide the
\* same next cursor and the same activation; and a step of either trigger that
\* fires moves the cursor to that index, starts an activation exactly when
\* that is the decision, and leaves the guard set exactly when an activation
\* was started and has not already ended.
C27_TriggersAgree ==
    /\ [](/\ StateChangedPolicy(repeat, playlist_index, Len(playlist))
               = CheckPositionPolicy(repeat, playlist_index, Len(playlist))
          /\ StateChangedFires("playing", "idle") <=> CheckPositionFires("playing", 1, 3, Absent))
    /\ [][(ev'.act \in Triggers /\ ev'.hit)
            => LET d == StateChangedPolicy(repeat, playlist_index, Len(playlist)) IN
               IF playlist # <<>> /\ ~advancing
               THEN /\ playlist_index' = d.index
                    /\ Started <=> d.activate
                    /\ advancing' <=> (d.activate /\ ev'.exit = "none")
               ELSE /\ UNCHANGED <<playlist_index, advancing, tasks>>
                    /\ ev'.exit = "none"]_vars

C27_Witness ==
    /\ ev.act = "check_position"
    /\ ev.hit
    /\ repeat = "all"
    /\ Len(playlist) = 2
    /\ playlist_index = 0
    /\ run.op = "finished"
    /\ run.pre = 1
    /\ advancing
    /\ \E t \in TaskIds : InFlight(t)

\* C28: a state-change notification never changes the queue or the session and
\* sends no command; unless the old state is playing, the new state is idle,
\* the queue is non-empty and the guard is clear, it also leaves the cursor
\* and the guard as they were and starts no activation.
C28_StateChangeFrame ==
    [][ev'.act = "state_changed"
          => \A old, new \in TargetStates \cup {None} :
                TargetStateChanged(old, new)
                    => /\ UNCHANGED <<playlist, session>>
                       /\ ev'.cmd = "none"
                       /\ ~(old = "playing" /\ new = "idle" /\ playlist # <<>> /\ ~advancing)
                             => UNCHANGED <<playlist_index, advancing, tasks>>]_vars

C28_Witness ==
    /\ ev.act = "state_changed"
    /\ ~ev.hit
    /\ Len(playlist) = 2
    /\ playlist_index = 0
    /\ ~advancing
    /\ media_title = playlist[1].name
    /\ \A t \in TaskIds : tasks[t] = Idle

\* C29: for each track an activation tries, resolve_song_redirect is called at
\* most 3 times; a call that returns a url is the last for the track and its
\* url is the one play_media forwards; a failed first or second call is
\* followed by another call for the same track; the third failed call, and no
\* earlier one, has the track skipped (the cursor moves on) or, on the last
\* track, ends the activation.
C29_ThreeAttemptsPerTrack ==
    /\ [](\A t \in TaskIds : tasks[t].attempt < 3)
    /\ [][ev'.act = "resolved"
            => \A t \in TaskIds, ok \in BOOLEAN :
                 Resolved(t, ok)
                    => IF ok
                       THEN /\ tasks'[t].pc = "meta"
                            /\ tasks'[t].song = tasks[t].song
                            /\ tasks'[t].url = UrlOf(tasks[t].song)
                            /\ UNCHANGED playlist_index
                       ELSE IF tasks[t].attempt + 1 < 3
                       THEN /\ tasks'[t] = [tasks[t] EXCEPT !.attempt = @ + 1]
                            /\ ev'.exit = "none"
                            /\ UNCHANGED <<playlist_index, advancing>>
                       ELSE \/ /\ playlist_index' = playlist_index + 1
                               /\ tasks'[t].pc \in {"stop", "resolve"}
                               /\ tasks'[t].attempt = 0
                            \/ /\ ev'.exit = "exhausted"
                               /\ tasks'[t] = Idle
                               /\ UNCHANGED playlist_index]_vars
    /\ [][ev'.act = "meta_done"
            => \A t \in TaskIds :
                 MetaDone(t)
                    => /\ ev'.cmd = "play_media"
                       /\ tasks[t].url = UrlOf(tasks[t].song)
                       /\ run # NoRun => run'.url = tasks[t].url]_vars

C29_Witness ==
    /\ ev.act = "resolved"
    /\ run.tries = 3
    /\ run.skipped = 0
    /\ \E t \in TaskIds : tasks[t].pc = "meta" /\ tasks[t].url = UrlOf(tasks[t].song)

\* the step entered _play_current_track in task t: the task stands at the
\* first await of a fresh execution (a call or the recursive call of a skip)
Entered(t) ==
    /\ tasks'[t] # tasks[t]
    /\ tasks'[t].pc \in {"stop", "resolve"}
    /\ tasks'[t].attempt = 0
    /\ ev'.act # "stop_done"

\* C30 as stated: a step that enters _play_current_track with an empty queue or
\* with a cursor outside [0, len) returns at once: the guard is clear, no
\* execution is left waiting on a remote call, no command is sent to the
\* external player and the session fields are unchanged.
C30_OutOfRangeEntryIsNoop ==
    [][(/\ ev'.exit = "noop" \/ \E t \in TaskIds : Entered(t)
        /\ playlist' = <<>> \/ playlist_index' < 0 \/ playlist_index' >= Len(playlist'))
                => /\ ev'.exit = "noop"
                   /\ ~advancing'
                   /\ ev'.cmd = "none"
                   /\ \A t \in TaskIds : ~Entered(t)
                   /\ UNCHANGED session]_vars

\* the part of C30 the test of line 315 gives: the same with the cursor
\* at or past the end only
C30_PastEndEntryIsNoop ==
    [][(/\ ev'.exit = "noop" \/ \E t \in TaskIds : Entered(t)
        /\ playlist' = <<>> \/ playlist_index' >= Len(playlist'))
                => /\ ev'.exit = "noop"
                   /\ ~advancing'
                   /\ ev'.cmd = "none"
                   /\ \A t \in TaskIds : ~Entered(t)
                   /\ UNCHANGED session]_vars

\* the position a report puts the track at, adjusted by the time elapsed since
\* the position was reported
AdjustedPosition(r) == IF r.elapsed # Absent THEN r.position + r.elapsed ELSE r.position

\* the conditions C31 lists for a poll tick to fire
PollMayFire(r) ==
    /\ playlist # <<>>
    /\ ~advancing
    /\ r.st = "playing"
    /\ r.position # Absent
    /\ r.duration # Absent
    /\ r.duration > 0
    /\ AdjustedPosition(r) >= r.duration - 2

\* the step changed the cursor, the guard, the session or the coroutines, or
\* sent a command
PollActed ==
    \/ playlist_index' # playlist_index
    \/ advancing' # advancing
    \/ session' # session
    \/ tasks' # tasks
    \/ playlist' # playlist
    \/ ev'.cmd # "none"

\* C31: a poll tick acts only on a non-empty queue, with the guard clear, on a
\* report of a playing target with a position and a duration > 0 whose adjusted
\* position is >= duration - 2; a tick with any other report changes neither
\* cursor, guard, session nor queue and sends no command; and a tick on such a
\* report does act (or enters an activation that returns at once) unless the
\* queue is at its end with repeat off.
C31_PollFiresOnlyNearEnd ==
    [][ev'.act = "check_position"
          => \A r \in Reports :
               /\ (PollActed /\ ~PollMayFire(r))
                     => ~CheckPosition(r.st, r.position, r.duration, r.elapsed)
               /\ (PollMayFire(r) /\ ~PollActed /\ ev'.exit # "noop"
                        /\ CheckPosition(r.st, r.position, r.duration, r.elapsed))
                     => /\ repeat = "off"
                        /\ playlist_index >= Len(playlist) - 1]_vars

C31_Witness ==
    /\ ev.act = "check_position"
    /\ ev.hit
    /\ ev.cmd = "media_stop"
    /\ advancing
    /\ playlist_index = 1

ContentIdOf(song) == "media-source://tunefree/" \o SourceOf(song) \o ":" \o Str(song.id)

\* the session shows the song at the cursor
SessionAtCursor ==
    /\ InQueue(playlist_index)
    /\ SessionIs(playlist[playlist_index + 1])
    /\ media_content_id = ContentIdOf(playlist[playlist_index + 1])

\* C33 as stated: when the play_media call of an activation returns and no
\* activation is left in flight, the session's song id, title and content id
\* are those of the song at the cursor, and the url of that play_media is the
\* one resolved for that song, whether or not activations overlapped.
C33_SessionMatchesCursorWhenQuiet ==
    [][(ev'.act = "play_done" /\ ev'.exit = "played" /\ AllIdle')
          => /\ SessionAtCursor'
             /\ \A t \in TaskIds :
                   tasks[t].pc = "play" => tasks[t].url = UrlOf(playlist[playlist_index + 1])]_vars

\* how many times x occurs in the list l
Count(l, x) == Cardinality({j \in 1..Len(l) : l[j] = x})

\* l and m hold the same songs the same number of times
Permutation(l, m) ==
    /\ Len(l) = Len(m)
    /\ \A j \in 1..Len(l) : Count(l, l[j]) = Count(m, l[j])

\* C34: async_set_shuffle(True) leaves a queue that is a permutation of the
\* queue before the call; async_set_shuffle(False) leaves the queue and the
\* cursor as they are; neither sends a command to the external player.
C34_ShuffleIsPermutation ==
    [][ev'.act = "set_shuffle"
          => /\ ev'.cmd = "none"
             /\ shuffle' => Permutation(playlist, playlist')
             /\ ~shuffle' => UNCHANGED <<playlist, playlist_index>>]_vars

C34_Witness ==
    /\ ev.act = "set_shuffle"
    /\ ev.hit
    /\ shuffle
    /\ Len(playlist) = 3
    /\ playlist[1] = playlist[3]
    /\ playlist[1] # playlist[2]

\* C36 as stated: a play of now_playing_song:<i> leaves the queue as it is;
\* with 0 <= i < len it sets the cursor to i and enters the activation of that
\* track; with any other i it leaves the cursor as it is and starts no remote
\* search and no list fetch.
C36_JumpNeverRefetches ==
    [][ev'.act = "play_now_playing_song"
          => \A i \in JumpArgs, music \in BOOLEAN :
               PlayNowPlayingSong(i, music)
                  => /\ playlist' = playlist
                     /\ IF InQueue(i)
                        THEN /\ playlist_index' = i
                             /\ \E t \in TaskIds : Entered(t)
                        ELSE /\ playlist_index' = playlist_index
                             /\ \A t \in TaskIds :
                                   tasks'[t].pc \in {"search", "fetch", "playlist"}
                                      => tasks'[t] = tasks[t]]_vars

\* the steps of a play of a single-song leaf or of a plain url
LeafActs == {"play_media_source", "leaf_info_done", "leaf_resolved", "leaf_play_done", "play_url"}

NoPlatformPrefix(identifier) ==
    \/ Len(identifier) < 2
    \/ identifier[1] \notin KnownSources
    \/ identifier[2] # ":"

\* song is what C37 requires an identifier to be taken for: the platform and
\* the song id it was built from, or netease and the whole identifier when it
\* has no platform prefix
TakenFor(identifier, song) ==
    /\ \A source \in KnownSources, song_id \in LeafSongIds :
          identifier = leaf_identifier(source, song_id)
             => song = [source |-> source, id |-> Text(song_id)]
    /\ NoPlatformPrefix(identifier)
          => song = [source |-> "netease", id |-> Text(identifier)]

\* the url resolved for a song of a platform
UrlFor(song) == Location(get_song_url_endpoint(song.id, song.source))

\* the media source resolves every identifier as C37 requires
ResolverTakes ==
    ev'.act = "resolve_media"
       => \A identifier \in LeafIds :
            ResolveMedia(identifier, TRUE)
               => \E source \in KnownSources :
                    \E id \in {Text(song_id) : song_id \in LeafSongIds} \cup {Text(identifier)} :
                       /\ TakenFor(identifier, [source |-> source, id |-> id])
                       /\ ev'.view = PlayMedia(UrlFor([source |-> source, id |-> id]))

\* the player asked to play the uri of an identifier takes the identifier as
\* C37 requires
PlayerTakes(identifier) ==
    \A music \in BOOLEAN :
       PlayMediaSource(leaf_uri(identifier), music)
          => \E t \in TaskIds :
                /\ tasks'[t].pc = "leaf_info"
                /\ TakenFor(identifier, [source |-> tasks'[t].list[1], id |-> tasks'[t].list[2]])

\* C37 as stated: the identifier <platform>:<songId> of a browse leaf is taken
\* apart into the same platform and song id, colons in the id included, and an
\* identifier without a platform prefix is resolved on netease with the whole
\* identifier as the song id, by the media source and by the player alike.
C37_SongIdentifierRoundTrip ==
    [][/\ ResolverTakes
       /\ ev'.act \in {"play_media_source", "play_toplist_song"}
             => \A identifier \in LeafIds : PlayerTakes(identifier)]_vars

\* the part of C37 that is about the media source
C37_ResolverRoundTrip == [][ResolverTakes]_vars

\* the part of C37 that is about the player, for the identifiers that hold no
\* uri prefix and are not those of a chart position
C37_PlayerRoundTrip ==
    [][ev'.act = "play_media_source"
          => \A identifier \in LeafIds :
                (/\ StripUri(identifier) = identifier
                 /\ ~startswith(identifier, <<"toplist_song", ":">>))
                    => PlayerTakes(identifier)]_vars

====
